---- MODULE Spec2Model ----
(***************************************************************************)
(* State-machine model of the CosmicCreator contracts: SkillNFT (skill     *)
(* certificates, XP, levels, rarity), MilestoneVerifier (milestone         *)
(* lifecycle: create, endorse, challenge, verify, reject) and the staking  *)
(* functions of ReputationMarket (stake, withdraw with level reward).      *)
(*                                                                         *)
(* A reverting call leaves the chain state untouched, so a handler is an   *)
(* action whose guard is the conjunction of the negated revert conditions  *)
(* of the whole call (nested calls included); "the call is rejected" is    *)
(* ~ENABLED of the action for those arguments.  Timestamps, strings        *)
(* (title, description, proofUrl, token URI) and events do not influence   *)
(* any guard or any modelled field and are left out.  All modelled         *)
(* quantities stay far below 2^256, so checked uint256 arithmetic never    *)
(* overflows within the bounds.                                            *)
(***************************************************************************)
EXTENDS Integers, FiniteSets, Sequences, TLC

VARIABLES
    tokenIdCounter,      \* SkillNFT._tokenIdCounter
    skills,              \* SkillNFT.skills : tokenId -> Skill
    tokenOwner,          \* ERC721 owner of each token (ZeroAddr = not minted)
    milestoneVerifier,   \* SkillNFT.milestoneVerifier
    milestoneIdCounter,  \* MilestoneVerifier._milestoneIdCounter
    milestones,          \* MilestoneVerifier.milestones : id -> Milestone
    hasEndorsed,         \* id -> set of addresses with hasEndorsed[id][a]
    hasChallenged,       \* id -> set of addresses with hasChallenged[id][a]
    isOracle,            \* set of addresses with isOracle[a]
    baseXPRewards,       \* MilestoneVerifier.baseXPRewards : type -> XP
    nftStakes,           \* ReputationMarket.nftStakes : tokenId -> Stake[]
    totalStaked,         \* ReputationMarket.totalStaked : address -> wei
    nftTotalStaked,      \* ReputationMarket.nftTotalStaked : tokenId -> wei
    balance,             \* wei held by each account and by the market contract
    stakeDeposited,      \* number of StakeDeposited events emitted so far
    balanceFinney,       \* finney (0.001 ether) held on top of `balance`
    reputationScore,     \* ReputationMarket.reputationScore : address -> points
    seasonPoints,        \* ReputationMarket.seasonPoints : season -> address -> points
    seasonLeaderboard,   \* ReputationMarket.seasonLeaderboard : season -> address[]
    currentSeason,       \* ReputationMarket.currentSeason
    seasonStartTime,     \* ReputationMarket.seasonStartTime
    reputationEarned,    \* number of ReputationEarned events emitted so far
    proposalIdCounter,   \* ReputationMarket._proposalIdCounter
    proposals,           \* ReputationMarket.proposals : id -> Proposal
    now                  \* block.timestamp of the next call

nftVars == <<tokenIdCounter, skills, tokenOwner, milestoneVerifier>>
verVars == <<milestoneIdCounter, milestones, hasEndorsed, hasChallenged, isOracle,
             baseXPRewards>>
mktVars == <<nftStakes, totalStaked, nftTotalStaked, balance, stakeDeposited>>
repVars == <<balanceFinney, reputationScore, seasonPoints, seasonLeaderboard,
             currentSeason, seasonStartTime, reputationEarned>>
govVars == <<proposalIdCounter, proposals>>
vars == <<tokenIdCounter, skills, tokenOwner, milestoneVerifier,
          milestoneIdCounter, milestones, hasEndorsed, hasChallenged, isOracle,
          baseXPRewards, nftStakes, totalStaked, nftTotalStaked, balance,
          stakeDeposited, balanceFinney, reputationScore, seasonPoints,
          seasonLeaderboard, currentSeason, seasonStartTime, reputationEarned,
          proposalIdCounter, proposals, now>>

----------------------------------------------------------------------------
(* Bounds of the model *)

MaxTokens == 1
MaxMilestones == 1
MaxGrants == 3
MaxStakes == 2
MaxProposals == 1
MaxSeasons == 2
MaxEarnings == 3
MaxTime == 10368001

----------------------------------------------------------------------------
(* Identities *)

ZeroAddr == "0x0"
\* the deployer: Ownable(msg.sender) of SkillNFT and of MilestoneVerifier
Owner == "owner"
\* address of the deployed MilestoneVerifier contract
VerifierAddr == "MilestoneVerifier"
\* externally owned accounts that issue calls
Addresses == {"owner", "alice", "bob", "carol", "dave"}
\* address of the deployed ReputationMarket contract
MarketAddr == "ReputationMarket"
\* accounts that hold wei when the protocol is deployed, and how much each
Funded == {"bob", "carol"}
InitialWei == 300

TokenIds == 0 .. (MaxTokens - 1)
MilestoneIds == 0 .. (MaxMilestones - 1)

----------------------------------------------------------------------------
(* SkillNFT *)

\* enum Rarity, in declaration order
Common == 0
Uncommon == 1
Rare == 2
Epic == 3
Legendary == 4

MaxLevel == 100

\* enum SkillCategory members used as mint inputs ("SolidityDev" is member 0)
Categories == {"SolidityDev", "Auditor"}

\* the zero-initialised struct read from skills[] for a token never minted
NoSkill == [category |-> "SolidityDev", level |-> 0, xp |-> 0,
            totalMilestones |-> 0, rarity |-> Common]

\* the struct mint() stores
NewSkill(category) == [category |-> category, level |-> 1, xp |-> 0,
                       totalMilestones |-> 0, rarity |-> Common]

\* _initializeXPRequirements: xpToNextLevel[i] = 100 * i * i / 10, i in 1..100;
\* the mapping reads 0 elsewhere
xpToNextLevel(i) == IF i >= 1 /\ i <= 100 THEN (100 * i * i) \div 10 ELSE 0

\* a level-up routine that performs at most one level-up per call
checkLevelUpOnce(skill) ==
    IF skill.level < 100 /\ skill.xp >= xpToNextLevel(skill.level)
    THEN [skill EXCEPT !.xp = @ - xpToNextLevel(skill.level), !.level = @ + 1]
    ELSE skill

RECURSIVE checkLevelUpOffByOne(_)
\* a level-up loop whose cap test reads "level <= 100"
checkLevelUpOffByOne(skill) ==
    IF skill.level <= 100 /\ skill.xp >= xpToNextLevel(skill.level)
    THEN checkLevelUpOffByOne([skill EXCEPT !.xp = @ - xpToNextLevel(skill.level),
                                           !.level = @ + 1])
    ELSE skill

RECURSIVE checkLevelUpDropsRemainder(_)
\* a level-up loop that starts every new level with no XP
checkLevelUpDropsRemainder(skill) ==
    IF skill.level < 100 /\ skill.xp >= xpToNextLevel(skill.level)
    THEN checkLevelUpDropsRemainder([skill EXCEPT !.xp = 0, !.level = @ + 1])
    ELSE skill

RECURSIVE checkLevelUp(_)
\* _checkLevelUp: while (level < 100 && xp >= xpToNextLevel[level]) { xp -= ...; level++ }
checkLevelUp(skill) ==
    IF skill.level < 100 /\ skill.xp >= xpToNextLevel(skill.level)
    THEN checkLevelUp([skill EXCEPT !.xp = @ - xpToNextLevel(skill.level),
                                    !.level = @ + 1])
    ELSE skill

\* a rarity routine that climbs at most one tier per call
checkRarityUpgradeOneTier(skill) ==
    IF skill.level >= 20 /\ skill.rarity < Uncommon THEN [skill EXCEPT !.rarity = Uncommon]
    ELSE IF skill.level >= 40 /\ skill.rarity < Rare THEN [skill EXCEPT !.rarity = Rare]
    ELSE IF skill.level >= 60 /\ skill.rarity < Epic THEN [skill EXCEPT !.rarity = Epic]
    ELSE IF skill.level >= 80 /\ skill.rarity < Legendary THEN [skill EXCEPT !.rarity = Legendary]
    ELSE skill

\* a rarity routine that recomputes the tier without comparing against the
\* current rarity and has the two top tiers swapped
checkRarityUpgradeRecompute(skill) ==
    IF skill.level >= 80 THEN [skill EXCEPT !.rarity = Epic]
    ELSE IF skill.level >= 60 THEN [skill EXCEPT !.rarity = Legendary]
    ELSE IF skill.level >= 40 THEN [skill EXCEPT !.rarity = Rare]
    ELSE IF skill.level >= 20 THEN [skill EXCEPT !.rarity = Uncommon]
    ELSE skill

\* _checkRarityUpgrade
checkRarityUpgrade(skill) ==
    IF skill.level >= 80 /\ skill.rarity < Legendary THEN [skill EXCEPT !.rarity = Legendary]
    ELSE IF skill.level >= 60 /\ skill.rarity < Epic THEN [skill EXCEPT !.rarity = Epic]
    ELSE IF skill.level >= 40 /\ skill.rarity < Rare THEN [skill EXCEPT !.rarity = Rare]
    ELSE IF skill.level >= 20 /\ skill.rarity < Uncommon THEN [skill EXCEPT !.rarity = Uncommon]
    ELSE skill

\* an authorisation test that forgets the caller check
addXPAllowedAnyCaller(sender, tokenId) ==
    tokenOwner[tokenId] # ZeroAddr

\* an authorisation test that forgets the existence check
addXPAllowedAnyToken(sender, tokenId) ==
    sender = milestoneVerifier

\* addXP, lines 461-462: the two revert conditions, negated
addXPAllowed(sender, tokenId) ==
    /\ sender = milestoneVerifier
    /\ tokenOwner[tokenId] # ZeroAddr

\* an XP grant that forgets to count the milestone
addXPSkillNoCount(skill, xpAmount) ==
    checkRarityUpgrade(checkLevelUp([skill EXCEPT !.xp = @ + xpAmount]))

\* addXP, lines 464-475: the skill record after the XP grant
addXPSkill(skill, xpAmount) ==
    checkRarityUpgrade(checkLevelUp(
        [skill EXCEPT !.xp = @ + xpAmount, !.totalMilestones = @ + 1]))

\* a mint that does not advance the id counter
mintKeepsCounter(caller, to, category) ==
    /\ to # ZeroAddr
    /\ skills' = [skills EXCEPT ![tokenIdCounter] = NewSkill(category)]
    /\ tokenOwner' = [tokenOwner EXCEPT ![tokenIdCounter] = to]
    /\ UNCHANGED <<tokenIdCounter, milestoneVerifier>>
    /\ UNCHANGED verVars
    /\ UNCHANGED mktVars
    /\ UNCHANGED <<repVars, govVars, now>>

\* mint(to, category), callable by anyone; _safeMint rejects the zero address
mint(caller, to, category) ==
    /\ to # ZeroAddr
    /\ tokenIdCounter' = tokenIdCounter + 1
    /\ skills' = [skills EXCEPT ![tokenIdCounter] = NewSkill(category)]
    /\ tokenOwner' = [tokenOwner EXCEPT ![tokenIdCounter] = to]
    /\ UNCHANGED milestoneVerifier
    /\ UNCHANGED verVars
    /\ UNCHANGED mktVars
    /\ UNCHANGED <<repVars, govVars, now>>

\* transferFrom(from, to, tokenId) of the ERC721 base contract, issued by the
\* token's owner (approvals are not modelled); the skill record stays with
\* the token
transferFrom(sender, from, to, tokenId) ==
    /\ tokenOwner[tokenId] # ZeroAddr
    /\ tokenOwner[tokenId] = from
    /\ sender = from
    /\ to # ZeroAddr
    /\ tokenOwner' = [tokenOwner EXCEPT ![tokenId] = to]
    /\ UNCHANGED <<tokenIdCounter, skills, milestoneVerifier>>
    /\ UNCHANGED verVars
    /\ UNCHANGED mktVars
    /\ UNCHANGED <<repVars, govVars, now>>

\* addXP(tokenId, xpAmount) called directly by an account
addXP(sender, tokenId, xpAmount) ==
    /\ addXPAllowed(sender, tokenId)
    /\ skills' = [skills EXCEPT ![tokenId] = addXPSkill(skills[tokenId], xpAmount)]
    /\ UNCHANGED <<tokenIdCounter, tokenOwner, milestoneVerifier>>
    /\ UNCHANGED verVars
    /\ UNCHANGED mktVars
    /\ UNCHANGED <<repVars, govVars, now>>

\* setMilestoneVerifier(_verifier), onlyOwner
setMilestoneVerifier(caller, verifier) ==
    /\ caller = Owner
    /\ milestoneVerifier' = verifier
    /\ UNCHANGED <<tokenIdCounter, skills, tokenOwner>>
    /\ UNCHANGED verVars
    /\ UNCHANGED mktVars
    /\ UNCHANGED <<repVars, govVars, now>>

----------------------------------------------------------------------------
(* MilestoneVerifier *)

Pending == "Pending"
Verified == "Verified"
Rejected == "Rejected"
Challenged == "Challenged"

ENDORSEMENT_THRESHOLD == 3
CHALLENGE_THRESHOLD == 2

\* enum MilestoneType; "GitHubCommit" is member 0
MilestoneTypes == {"GitHubCommit", "HackathonProject", "CourseCompleted",
                   "FeatureShipped", "ContractDeployed", "AuditCompleted",
                   "CommunityContribution", "Custom"}

\* _initializeBaseXP: the table the constructor writes
initializeBaseXP(t) ==
    CASE t = "GitHubCommit" -> 50
      [] t = "HackathonProject" -> 500
      [] t = "CourseCompleted" -> 200
      [] t = "FeatureShipped" -> 300
      [] t = "ContractDeployed" -> 400
      [] t = "AuditCompleted" -> 600
      [] t = "CommunityContribution" -> 150
      [] t = "Custom" -> 100

\* the zero-initialised struct read from milestones[] for an id never created
NoMilestone == [builder |-> ZeroAddr, skillNftId |-> 0, milestoneType |-> "GitHubCommit",
                xpAwarded |-> 0, status |-> Pending, verifier |-> ZeroAddr,
                endorsements |-> 0, challenges |-> 0]

\* an authorisation test whose owner comparison is inverted
isAuthorizedNotOwner(who) == who \in isOracle \/ who # Owner

\* onlyOracle test of verifyMilestone / rejectMilestone / verifyWithSignature:
\* if (!isOracle[who] && who != owner()) revert NotAuthorized()
isAuthorized(who) == who \in isOracle \/ who = Owner

\* a verification that reads the reward from the table as deployed
verifiedMilestoneInitialTable(m, who, xpMultiplier) ==
    [m EXCEPT !.status = Verified,
              !.xpAwarded = (initializeBaseXP(m.milestoneType) * xpMultiplier) \div 100,
              !.verifier = who]

\* the milestone record as verifyMilestone / verifyWithSignature store it
\* (status, xpAwarded, verifier; verifiedAt is a timestamp)
verifiedMilestone(m, who, xpMultiplier) ==
    [m EXCEPT !.status = Verified,
              !.xpAwarded = (baseXPRewards[m.milestoneType] * xpMultiplier) \div 100,
              !.verifier = who]

\* every revert condition of a verification of record m on behalf of `who`,
\* negated: NotAuthorized, InvalidStatus, and the reverts of the nested
\* skillNFT.addXP call, whose msg.sender is the MilestoneVerifier contract
verifyAllowed(who, m) ==
    /\ isAuthorized(who)
    /\ m.status = Pending
    /\ addXPAllowed(VerifierAddr, m.skillNftId)

\* an ownership test that accepts any caller once the certificate exists
createAllowedAnyCaller(sender, skillNftId) ==
    tokenOwner[skillNftId] # ZeroAddr

\* createMilestone, line 772: skillNFT.ownerOf reverts for a token never
\* minted, and the caller must be the owner it returns
createAllowed(sender, skillNftId) ==
    /\ tokenOwner[skillNftId] # ZeroAddr
    /\ tokenOwner[skillNftId] = sender

\* createMilestone(skillNftId, milestoneType, title, description, proofUrl)
createMilestone(sender, skillNftId, milestoneType) ==
    /\ createAllowed(sender, skillNftId)
    /\ milestoneIdCounter' = milestoneIdCounter + 1
    /\ milestones' = [milestones EXCEPT ![milestoneIdCounter] =
                        [builder |-> sender, skillNftId |-> skillNftId,
                         milestoneType |-> milestoneType, xpAwarded |-> 0,
                         status |-> Pending, verifier |-> ZeroAddr,
                         endorsements |-> 0, challenges |-> 0]]
    /\ UNCHANGED <<hasEndorsed, hasChallenged, isOracle, baseXPRewards>>
    /\ UNCHANGED nftVars
    /\ UNCHANGED mktVars
    /\ UNCHANGED <<repVars, govVars, now>>

\* verifyMilestone(milestoneId, xpMultiplier)
verifyMilestone(sender, milestoneId, xpMultiplier) ==
    LET m == milestones[milestoneId]
        v == verifiedMilestone(m, sender, xpMultiplier)
    IN  /\ verifyAllowed(sender, m)
        /\ milestones' = [milestones EXCEPT ![milestoneId] = v]
        /\ skills' = [skills EXCEPT ![m.skillNftId] = addXPSkill(@, v.xpAwarded)]
        /\ UNCHANGED <<milestoneIdCounter, hasEndorsed, hasChallenged, isOracle, baseXPRewards>>
        /\ UNCHANGED <<tokenIdCounter, tokenOwner, milestoneVerifier>>
        /\ UNCHANGED mktVars
        /\ UNCHANGED <<repVars, govVars, now>>

\* a rejection that is refused only for a Verified or Rejected milestone
rejectAllowedUnlessSettled(sender, milestoneId) ==
    /\ isAuthorized(sender)
    /\ milestones[milestoneId].status \notin {Verified, Rejected}

\* rejectMilestone, lines 832-835: the revert conditions, negated
rejectAllowed(sender, milestoneId) ==
    /\ isAuthorized(sender)
    /\ milestones[milestoneId].status = Pending

\* a rejection that also takes the certificate's XP away
rejectMilestoneClearsXP(sender, milestoneId) ==
    /\ rejectAllowed(sender, milestoneId)
    /\ milestones' = [milestones EXCEPT ![milestoneId].status = Rejected]
    /\ skills' = [skills EXCEPT ![milestones[milestoneId].skillNftId].xp = 0]
    /\ UNCHANGED <<milestoneIdCounter, hasEndorsed, hasChallenged, isOracle, baseXPRewards>>
    /\ UNCHANGED <<tokenIdCounter, tokenOwner, milestoneVerifier>>
    /\ UNCHANGED mktVars
    /\ UNCHANGED <<repVars, govVars, now>>

\* rejectMilestone(milestoneId, reason)
rejectMilestone(sender, milestoneId) ==
    /\ rejectAllowed(sender, milestoneId)
    /\ milestones' = [milestones EXCEPT ![milestoneId].status = Rejected]
    /\ UNCHANGED <<milestoneIdCounter, hasEndorsed, hasChallenged, isOracle, baseXPRewards>>
    /\ UNCHANGED nftVars
    /\ UNCHANGED mktVars
    /\ UNCHANGED <<repVars, govVars, now>>

\* an endorsement test that forgets the status check
endorseAllowedAnyStatus(sender, milestoneId) ==
    /\ milestones[milestoneId].builder # sender
    /\ sender \notin hasEndorsed[milestoneId]

\* an endorsement test that forgets the one-endorsement-per-account check
endorseAllowedRepeated(sender, milestoneId) ==
    /\ milestones[milestoneId].builder # sender
    /\ milestones[milestoneId].status = Pending

\* endorseMilestone, lines 849-851: the revert conditions, negated
endorseAllowed(sender, milestoneId) ==
    /\ milestones[milestoneId].builder # sender
    /\ sender \notin hasEndorsed[milestoneId]
    /\ milestones[milestoneId].status = Pending

\* endorseMilestone(milestoneId).  At the threshold the function calls
\* verifyMilestone(milestoneId, 100) unqualified, i.e. as an internal call: it
\* runs in the same call frame, with the endorser as msg.sender, on the record
\* whose endorsement counter is already incremented, and its reverts undo the
\* whole endorsement.
endorseMilestone(sender, milestoneId) ==
    LET m == milestones[milestoneId]
        endorsed == [m EXCEPT !.endorsements = @ + 1]
        v == verifiedMilestone(endorsed, sender, 100)
    IN  /\ endorseAllowed(sender, milestoneId)
        /\ hasEndorsed' = [hasEndorsed EXCEPT ![milestoneId] = @ \cup {sender}]
        /\ IF endorsed.endorsements >= ENDORSEMENT_THRESHOLD
           THEN /\ verifyAllowed(sender, endorsed)
                /\ milestones' = [milestones EXCEPT ![milestoneId] = v]
                /\ skills' = [skills EXCEPT ![m.skillNftId] = addXPSkill(@, v.xpAwarded)]
           ELSE /\ milestones' = [milestones EXCEPT ![milestoneId] = endorsed]
                /\ UNCHANGED skills
        /\ UNCHANGED <<milestoneIdCounter, hasChallenged, isOracle, baseXPRewards>>
        /\ UNCHANGED <<tokenIdCounter, tokenOwner, milestoneVerifier>>
        /\ UNCHANGED mktVars
        /\ UNCHANGED <<repVars, govVars, now>>

\* a challenge that is accepted on a Rejected milestone too
challengeAllowedAnyStatus(sender, milestoneId) ==
    sender \notin hasChallenged[milestoneId]

\* challengeMilestone, lines 871-872: the revert conditions, negated
challengeAllowed(sender, milestoneId) ==
    /\ sender \notin hasChallenged[milestoneId]
    /\ milestones[milestoneId].status # Rejected

\* a challenge that also takes back the XP recorded on the milestone
challengedMilestoneClearsXP(m) ==
    [m EXCEPT !.challenges = @ + 1,
              !.xpAwarded = 0,
              !.status = IF m.challenges + 1 >= CHALLENGE_THRESHOLD
                         THEN Challenged ELSE @]

\* a challenge whose threshold test reads "challenges > CHALLENGE_THRESHOLD"
challengedMilestoneLateThreshold(m) ==
    [m EXCEPT !.challenges = @ + 1,
              !.status = IF m.challenges + 1 > CHALLENGE_THRESHOLD
                         THEN Challenged ELSE @]

\* challengeMilestone, lines 875-882: the record after the challenge
challengedMilestone(m) ==
    [m EXCEPT !.challenges = @ + 1,
              !.status = IF m.challenges + 1 >= CHALLENGE_THRESHOLD
                         THEN Challenged ELSE @]

\* challengeMilestone(milestoneId)
challengeMilestone(sender, milestoneId) ==
    /\ challengeAllowed(sender, milestoneId)
    /\ hasChallenged' = [hasChallenged EXCEPT ![milestoneId] = @ \cup {sender}]
    /\ milestones' = [milestones EXCEPT ![milestoneId] = challengedMilestone(@)]
    /\ UNCHANGED <<milestoneIdCounter, hasEndorsed, isOracle, baseXPRewards>>
    /\ UNCHANGED nftVars
    /\ UNCHANGED mktVars
    /\ UNCHANGED <<repVars, govVars, now>>

\* a signed verification that authorises and records the submitter instead
\* of the signer
verifyWithSignatureBySubmitter(sender, milestoneId, xpMultiplier, signer) ==
    LET m == milestones[milestoneId]
        v == verifiedMilestone(m, sender, xpMultiplier)
    IN  /\ m.status = Pending
        /\ verifyAllowed(sender, m)
        /\ milestones' = [milestones EXCEPT ![milestoneId] = v]
        /\ skills' = [skills EXCEPT ![m.skillNftId] = addXPSkill(@, v.xpAwarded)]
        /\ UNCHANGED <<milestoneIdCounter, hasEndorsed, hasChallenged, isOracle, baseXPRewards>>
        /\ UNCHANGED <<tokenIdCounter, tokenOwner, milestoneVerifier>>
        /\ UNCHANGED mktVars
        /\ UNCHANGED <<repVars, govVars, now>>

\* verifyWithSignature(milestoneId, xpMultiplier, signature): the signature is
\* represented by the account ECDSA.recover returns for the message
\* (milestoneId, xpMultiplier); the status test precedes the signer test
verifyWithSignature(sender, milestoneId, xpMultiplier, signer) ==
    LET m == milestones[milestoneId]
        v == verifiedMilestone(m, signer, xpMultiplier)
    IN  /\ m.status = Pending
        /\ verifyAllowed(signer, m)
        /\ milestones' = [milestones EXCEPT ![milestoneId] = v]
        /\ skills' = [skills EXCEPT ![m.skillNftId] = addXPSkill(@, v.xpAwarded)]
        /\ UNCHANGED <<milestoneIdCounter, hasEndorsed, hasChallenged, isOracle, baseXPRewards>>
        /\ UNCHANGED <<tokenIdCounter, tokenOwner, milestoneVerifier>>
        /\ UNCHANGED mktVars
        /\ UNCHANGED <<repVars, govVars, now>>

\* addOracle(oracle), onlyOwner
addOracle(sender, oracle) ==
    /\ sender = Owner
    /\ isOracle' = isOracle \cup {oracle}
    /\ UNCHANGED <<milestoneIdCounter, milestones, hasEndorsed, hasChallenged,
                 baseXPRewards>>
    /\ UNCHANGED nftVars
    /\ UNCHANGED mktVars
    /\ UNCHANGED <<repVars, govVars, now>>

\* setBaseXPReward(milestoneType, xp), onlyOwner
setBaseXPReward(sender, milestoneType, xp) ==
    /\ sender = Owner
    /\ baseXPRewards' = [baseXPRewards EXCEPT ![milestoneType] = xp]
    /\ UNCHANGED <<milestoneIdCounter, milestones, hasEndorsed, hasChallenged, isOracle>>
    /\ UNCHANGED nftVars
    /\ UNCHANGED mktVars
    /\ UNCHANGED <<repVars, govVars, now>>

\* removeOracle(oracle), onlyOwner
removeOracle(sender, oracle) ==
    /\ sender = Owner
    /\ isOracle' = isOracle \ {oracle}
    /\ UNCHANGED <<milestoneIdCounter, milestones, hasEndorsed, hasChallenged,
                 baseXPRewards>>
    /\ UNCHANGED nftVars
    /\ UNCHANGED mktVars
    /\ UNCHANGED <<repVars, govVars, now>>

----------------------------------------------------------------------------
(* ReputationMarket: staking *)

\* a removal that pops the last entry without moving it to stakeIndex first
removeStakePopOnly(stakes, stakeIndex) ==
    [i \in 1 .. (Len(stakes) - 1) |-> stakes[i]]

\* the list after `stakes[stakeIndex] = stakes[stakes.length - 1]; stakes.pop()`
\* (stakeIndex counts from 0 as in the contract, sequences count from 1)
removeStake(stakes, stakeIndex) ==
    [i \in 1 .. (Len(stakes) - 1) |->
        IF i = stakeIndex + 1 THEN stakes[Len(stakes)] ELSE stakes[i]]

\* a reward computation that rounds up
stakeRewardsRoundedUp(amount, skillNftId) ==
    (amount * skills[skillNftId].level + 99) \div 100

\* withdrawStake, line 189: rewards = (amount * skill.level) / 100, the level
\* read from skillNFT.getSkill at the time of the call
stakeRewards(amount, skillNftId) == (amount * skills[skillNftId].level) \div 100

\* a withdrawal test that forgets the "Not stake owner" check
withdrawAllowedAnyCaller(sender, skillNftId, stakeIndex) ==
    stakeIndex < Len(nftStakes[skillNftId])

\* withdrawStake, lines 180 and 183: the two require conditions
withdrawAllowed(sender, skillNftId, stakeIndex) ==
    /\ stakeIndex < Len(nftStakes[skillNftId])
    /\ nftStakes[skillNftId][stakeIndex + 1].staker = sender

\* Ether amounts are pairs [finney, wei] standing for finney * 10^15 + wei;
\* an account holds balanceFinney[a] finney plus balance[a] wei, where the wei
\* part stays far below 10^15 in absolute value and may be negative while
\* the sum is not.
Wei(value) == [finney |-> 0, wei |-> value]

\* address(account).balance >= value: what a payable call or a transfer of
\* `value` out of `account` needs
covers(account, value) ==
    \/ balanceFinney[account] > value.finney
    \/ /\ balanceFinney[account] = value.finney
       /\ balance[account] >= value.wei

\* stakeOnSkill(skillNftId) payable, msg.value = value; the certificate id is
\* not looked up.  The entry's skillNftId is its list's key, its timestamp
\* and rewardsClaimed (always 0) are never read.
stakeOnSkill(sender, skillNftId, value) ==
    /\ value > 0
    /\ covers(sender, Wei(value))
    /\ nftStakes' = [nftStakes EXCEPT ![skillNftId] =
                        Append(@, [staker |-> sender, amount |-> value])]
    /\ totalStaked' = [totalStaked EXCEPT ![sender] = @ + value]
    /\ nftTotalStaked' = [nftTotalStaked EXCEPT ![skillNftId] = @ + value]
    /\ balance' = [balance EXCEPT ![sender] = @ - value, ![MarketAddr] = @ + value]
    /\ stakeDeposited' = stakeDeposited + 1
    /\ UNCHANGED nftVars
    /\ UNCHANGED verVars
    /\ UNCHANGED <<repVars, govVars, now>>

\* withdrawStake(skillNftId, stakeIndex); the checked subtractions and the
\* transfer of amount + rewards out of the contract's balance revert the call
\* when they cannot be carried out
withdrawStake(sender, skillNftId, stakeIndex) ==
    LET stakes == nftStakes[skillNftId]
        amount == stakes[stakeIndex + 1].amount
        rewards == stakeRewards(amount, skillNftId)
    IN  /\ withdrawAllowed(sender, skillNftId, stakeIndex)
        /\ totalStaked[sender] >= amount
        /\ nftTotalStaked[skillNftId] >= amount
        /\ covers(MarketAddr, Wei(amount + rewards))
        /\ nftStakes' = [nftStakes EXCEPT ![skillNftId] = removeStake(stakes, stakeIndex)]
        /\ totalStaked' = [totalStaked EXCEPT ![sender] = @ - amount]
        /\ nftTotalStaked' = [nftTotalStaked EXCEPT ![skillNftId] = @ - amount]
        /\ balance' = [balance EXCEPT ![MarketAddr] = @ - (amount + rewards),
                                      ![sender] = @ + (amount + rewards)]
        /\ UNCHANGED stakeDeposited
        /\ UNCHANGED nftVars
        /\ UNCHANGED verVars
        /\ UNCHANGED <<repVars, govVars, now>>

\* receive() external payable {}: a plain transfer of value to the market
receive(sender, value) ==
    /\ covers(sender, Wei(value))
    /\ balance' = [balance EXCEPT ![sender] = @ - value, ![MarketAddr] = @ + value]
    /\ UNCHANGED <<nftStakes, totalStaked, nftTotalStaked, stakeDeposited>>
    /\ UNCHANGED nftVars
    /\ UNCHANGED verVars
    /\ UNCHANGED <<repVars, govVars, now>>

\* withdraw() onlyOwner: the contract's whole balance, stakers' principal
\* included, is sent to the owner
withdraw(sender) ==
    /\ sender = Owner
    /\ balanceFinney' = [balanceFinney EXCEPT
                            ![Owner] = @ + balanceFinney[MarketAddr],
                            ![MarketAddr] = 0]
    /\ balance' = [balance EXCEPT
                            ![Owner] = @ + balance[MarketAddr],
                            ![MarketAddr] = 0]
    /\ UNCHANGED <<nftStakes, totalStaked, nftTotalStaked, stakeDeposited>>
    /\ UNCHANGED <<reputationScore, seasonPoints, seasonLeaderboard, currentSeason,
                   seasonStartTime, reputationEarned>>
    /\ UNCHANGED <<nftVars, verVars, govVars, now>>

----------------------------------------------------------------------------
(* ReputationMarket: tips, skill endorsements, seasons, proposals and votes *)

MIN_REPUTATION_TO_PROPOSE == 1000
TIP_FEE_PERCENTAGE == 5
ENDORSEMENT_REPUTATION == 10
\* uint256 public seasonDuration = 90 days, in seconds
seasonDuration == 7776000
\* number of entries endSeason asks _getTopBuilders for
LeaderboardSize == 10

\* finney given to each funded account: vm.deal(builder2, 1 ether)
InitialFinney == 1000
\* block.timestamp at deployment
DeployTime == 1

SeasonIds == 1..MaxSeasons
ProposalIds == 0..(MaxProposals - 1)

\* a Proposal slot that was never written.  id, title and description are
\* never read by the contract and are left out.
NoProposal == [proposer |-> ZeroAddr, votesFor |-> 0, votesAgainst |-> 0,
               startTime |-> 0, endTime |-> 0, executed |-> FALSE,
               hasVoted |-> {}, voteWeight |-> [a \in Addresses |-> 0]]

\* a fee whose wei part is rounded up
tipFeeRoundedUp(value) ==
    [finney |-> (value.finney * TIP_FEE_PERCENTAGE) \div 100,
     wei |-> (value.wei * TIP_FEE_PERCENTAGE + 99) \div 100]

\* fee = (msg.value * TIP_FEE_PERCENTAGE) / 100, truncating; exact for values
\* whose finney part is a multiple of 20, where 5% of it is whole finney
tipFee(value) ==
    [finney |-> (value.finney * TIP_FEE_PERCENTAGE) \div 100,
     wei |-> (value.wei * TIP_FEE_PERCENTAGE) \div 100]

\* reputationEarned = msg.value / 0.001 ether, truncating
tipReputation(value) == value.finney

\* a tip whose points always go to the first season
tipBuilderFirstSeason(sender, to, value) ==
    LET fee == tipFee(value)
    IN  /\ value.finney > 0 \/ value.wei > 0
        /\ to # sender
        /\ covers(sender, value)
        /\ balanceFinney' = [balanceFinney EXCEPT
                                ![sender] = @ - value.finney,
                                ![to] = @ + (value.finney - fee.finney),
                                ![MarketAddr] = @ + fee.finney]
        /\ balance' = [balance EXCEPT
                                ![sender] = @ - value.wei,
                                ![to] = @ + (value.wei - fee.wei),
                                ![MarketAddr] = @ + fee.wei]
        /\ reputationScore' = [reputationScore EXCEPT ![to] = @ + tipReputation(value)]
        /\ seasonPoints' = [seasonPoints EXCEPT ![1][to] =
                                                  @ + tipReputation(value)]
        /\ reputationEarned' = reputationEarned + 1
        /\ UNCHANGED <<nftStakes, totalStaked, nftTotalStaked, stakeDeposited>>
        /\ UNCHANGED <<seasonLeaderboard, currentSeason, seasonStartTime>>
        /\ UNCHANGED <<nftVars, verVars, govVars, now>>

\* tipBuilder(to) payable, msg.value = value: `to` is sent value - fee, the
\* fee stays in the contract
tipBuilder(sender, to, value) ==
    LET fee == tipFee(value)
    IN  /\ value.finney > 0 \/ value.wei > 0
        /\ to # sender
        /\ covers(sender, value)
        /\ balanceFinney' = [balanceFinney EXCEPT
                                ![sender] = @ - value.finney,
                                ![to] = @ + (value.finney - fee.finney),
                                ![MarketAddr] = @ + fee.finney]
        /\ balance' = [balance EXCEPT
                                ![sender] = @ - value.wei,
                                ![to] = @ + (value.wei - fee.wei),
                                ![MarketAddr] = @ + fee.wei]
        /\ reputationScore' = [reputationScore EXCEPT ![to] = @ + tipReputation(value)]
        /\ seasonPoints' = [seasonPoints EXCEPT ![currentSeason][to] =
                                                  @ + tipReputation(value)]
        /\ reputationEarned' = reputationEarned + 1
        /\ UNCHANGED <<nftStakes, totalStaked, nftTotalStaked, stakeDeposited>>
        /\ UNCHANGED <<seasonLeaderboard, currentSeason, seasonStartTime>>
        /\ UNCHANGED <<nftVars, verVars, govVars, now>>

\* an endorsement that credits the holder only what the endorser pays
endorseSkillEvenExchange(sender, skillNftId) ==
    LET builder == tokenOwner[skillNftId]
    IN  /\ builder # ZeroAddr
        /\ builder # sender
        /\ reputationScore[sender] >= ENDORSEMENT_REPUTATION
        /\ reputationScore' = [reputationScore EXCEPT
                                  ![sender] = @ - ENDORSEMENT_REPUTATION,
                                  ![builder] = @ + ENDORSEMENT_REPUTATION]
        /\ seasonPoints' = [seasonPoints EXCEPT ![currentSeason][builder] =
                                                  @ + ENDORSEMENT_REPUTATION]
        /\ reputationEarned' = reputationEarned + 1
        /\ UNCHANGED <<balanceFinney, seasonLeaderboard, currentSeason, seasonStartTime>>
        /\ UNCHANGED <<nftVars, verVars, mktVars, govVars, now>>

\* endorseSkill(skillNftId): ownerOf reverts for a certificate that was never
\* minted; the endorser pays ENDORSEMENT_REPUTATION, the holder gains twice
\* as much, also in the current season
endorseSkill(sender, skillNftId) ==
    LET builder == tokenOwner[skillNftId]
    IN  /\ builder # ZeroAddr
        /\ builder # sender
        /\ reputationScore[sender] >= ENDORSEMENT_REPUTATION
        /\ reputationScore' = [reputationScore EXCEPT
                                  ![sender] = @ - ENDORSEMENT_REPUTATION,
                                  ![builder] = @ + ENDORSEMENT_REPUTATION * 2]
        /\ seasonPoints' = [seasonPoints EXCEPT ![currentSeason][builder] =
                                                  @ + ENDORSEMENT_REPUTATION * 2]
        /\ reputationEarned' = reputationEarned + 1
        /\ UNCHANGED <<balanceFinney, seasonLeaderboard, currentSeason, seasonStartTime>>
        /\ UNCHANGED <<nftVars, verVars, mktVars, govVars, now>>

\* createProposal(title, description, duration): the id is the counter's
\* value; the vote tallies and the per-voter mappings of the slot are not
\* written
createProposal(sender, duration) ==
    /\ reputationScore[sender] >= MIN_REPUTATION_TO_PROPOSE
    /\ proposalIdCounter' = proposalIdCounter + 1
    /\ proposals' = [proposals EXCEPT
                        ![proposalIdCounter].proposer = sender,
                        ![proposalIdCounter].startTime = now,
                        ![proposalIdCounter].endTime = now + duration,
                        ![proposalIdCounter].executed = FALSE]
    /\ UNCHANGED <<nftVars, verVars, mktVars, repVars, now>>

\* a vote that is recorded but carries weight 1 whatever the reputation
votedProposalUnweighted(proposal, sender, support) ==
    [proposal EXCEPT
        !.hasVoted = @ \cup {sender},
        !.voteWeight[sender] = 1,
        !.votesFor = IF support THEN @ + 1 ELSE @,
        !.votesAgainst = IF support THEN @ ELSE @ + 1]

\* a vote that overwrites the tally it supports instead of adding to it
votedProposalOverwritesTally(proposal, sender, support) ==
    LET voteWeight == reputationScore[sender]
    IN  [proposal EXCEPT
            !.hasVoted = @ \cup {sender},
            !.voteWeight[sender] = voteWeight,
            !.votesFor = IF support THEN voteWeight ELSE @,
            !.votesAgainst = IF support THEN @ ELSE voteWeight]

\* the proposal after vote(proposalId, support) by `sender`:
\* voteWeight = reputationScore[msg.sender] at the time of the call
votedProposal(proposal, sender, support) ==
    LET voteWeight == reputationScore[sender]
    IN  [proposal EXCEPT
            !.hasVoted = @ \cup {sender},
            !.voteWeight[sender] = voteWeight,
            !.votesFor = IF support THEN @ + voteWeight ELSE @,
            !.votesAgainst = IF support THEN @ ELSE @ + voteWeight]

\* a test that forgets the AlreadyVoted check
voteAllowedRepeated(sender, proposalId) ==
    ~ (\/ now < proposals[proposalId].startTime
       \/ now > proposals[proposalId].endTime)

\* the conditions under which vote does not revert
voteAllowed(sender, proposalId) ==
    /\ ~ (\/ now < proposals[proposalId].startTime
          \/ now > proposals[proposalId].endTime)
    /\ sender \notin proposals[proposalId].hasVoted

\* vote(proposalId, support)
vote(sender, proposalId, support) ==
    /\ voteAllowed(sender, proposalId)
    /\ proposals' = [proposals EXCEPT ![proposalId] = votedProposal(@, sender, support)]
    /\ UNCHANGED proposalIdCounter
    /\ UNCHANGED <<nftVars, verVars, mktVars, repVars, now>>

\* _getTopBuilders(count): a new address[](count), never filled in
getTopBuilders(count) == [i \in 1..count |-> ZeroAddr]

\* a test that forgets the "Season not ended" check
endSeasonAllowedAnyTime(sender) == sender = Owner

\* the conditions under which endSeason does not revert
endSeasonAllowed(sender) ==
    /\ sender = Owner
    /\ now >= seasonStartTime + seasonDuration

\* endSeason()
endSeason(sender) ==
    /\ endSeasonAllowed(sender)
    /\ seasonLeaderboard' = [seasonLeaderboard EXCEPT ![currentSeason] =
                                getTopBuilders(LeaderboardSize)]
    /\ currentSeason' = currentSeason + 1
    /\ seasonStartTime' = now
    /\ UNCHANGED <<balanceFinney, reputationScore, seasonPoints, reputationEarned>>
    /\ UNCHANGED <<nftVars, verVars, mktVars, govVars, now>>

\* block.timestamp moves forward between calls
advanceTime(seconds) ==
    /\ now' = now + seconds
    /\ UNCHANGED <<nftVars, verVars, mktVars, repVars, govVars>>

----------------------------------------------------------------------------
(* Initial state: the deployment script has run -- the constructors of     *)
(* SkillNFT and MilestoneVerifier, then                                    *)
(* skillNFT.setMilestoneVerifier(address(milestoneVerifier)).              *)

Init ==
    /\ tokenIdCounter = 0
    /\ skills = [t \in TokenIds |-> NoSkill]
    /\ tokenOwner = [t \in TokenIds |-> ZeroAddr]
    /\ milestoneVerifier = VerifierAddr
    /\ milestoneIdCounter = 0
    /\ milestones = [m \in MilestoneIds |-> NoMilestone]
    /\ hasEndorsed = [m \in MilestoneIds |-> {}]
    /\ hasChallenged = [m \in MilestoneIds |-> {}]
    /\ isOracle = {}
    /\ baseXPRewards = [t \in MilestoneTypes |-> initializeBaseXP(t)]
    /\ nftStakes = [t \in TokenIds |-> << >>]
    /\ totalStaked = [a \in Addresses |-> 0]
    /\ nftTotalStaked = [t \in TokenIds |-> 0]
    /\ balance = [a \in Addresses \cup {MarketAddr} |->
                    IF a \in Funded THEN InitialWei ELSE 0]
    /\ stakeDeposited = 0
    /\ balanceFinney = [a \in Addresses \cup {MarketAddr} |->
                          IF a \in Funded THEN InitialFinney ELSE 0]
    /\ reputationScore = [a \in Addresses |-> 0]
    /\ seasonPoints = [s \in SeasonIds |-> [a \in Addresses |-> 0]]
    /\ seasonLeaderboard = [s \in SeasonIds |-> << >>]
    /\ currentSeason = 1
    /\ seasonStartTime = DeployTime
    /\ reputationEarned = 0
    /\ proposalIdCounter = 0
    /\ proposals = [p \in ProposalIds |-> NoProposal]
    /\ now = DeployTime

----------------------------------------------------------------------------
(* Progression engine driven directly: the SkillNFT owner names an account *)
(* as milestone verifier (as the repository's tests do with vm.prank) and  *)
(* that account grants XP.                                                 *)

\* accounts that receive certificates
Holders == {"alice"}
\* values the owner may configure as milestone verifier
VerifierChoices == {"carol", ZeroAddr, VerifierAddr}
\* XP amounts granted: 1000 and 5000 are the amounts of testSkillLevelUp and
\* testRarityUpgrade; 700000 lifts a fresh certificate to level 59 and
\* 3300000 lifts it to level 100, each across several rarity tiers at once
XPAmounts == {1000, 5000, 700000, 3300000}

\* the model stops minting at MaxTokens certificates and stops granting to a
\* certificate after MaxGrants grants
CanMint == tokenIdCounter < MaxTokens
CanGrant(t) == skills[t].totalMilestones < MaxGrants

NextXP ==
    \/ \E c \in Addresses, to \in Holders, cat \in Categories :
          CanMint /\ mint(c, to, cat)
    \/ \E c \in Addresses, t \in TokenIds, a \in XPAmounts :
          CanGrant(t) /\ addXP(c, t, a)
    \/ \E c \in Addresses, v \in VerifierChoices : setMilestoneVerifier(c, v)

SpecXP == Init /\ [][NextXP]_vars

----------------------------------------------------------------------------
(* The deployed protocol: certificates are minted, milestones are created, *)
(* endorsed, challenged, verified and rejected, oracles come and go.       *)

\* milestone types submitted
UsedTypes == {"GitHubCommit", "AuditCompleted"}
\* multipliers passed by oracles (100 = 1x)
Multipliers == {100, 150}
\* accounts the owner registers or removes as oracle
OracleCandidates == {"carol"}

\* accounts that issue challenges
Challengers == {"owner", "bob", "carol"}

\* accounts that certificates are transferred to
Recipients == {"bob"}

\* the model stops creating milestones at MaxMilestones
CanCreate == milestoneIdCounter < MaxMilestones

Next ==
    \/ \E c \in Addresses, to \in Holders : CanMint /\ mint(c, to, "SolidityDev")
    \/ \E c \in Addresses, to \in Recipients, t \in TokenIds :
          transferFrom(c, c, to, t)
    \/ \E c \in Addresses, t \in TokenIds, ty \in UsedTypes :
          CanCreate /\ createMilestone(c, t, ty)
    \/ \E c \in Addresses, m \in MilestoneIds, x \in Multipliers : verifyMilestone(c, m, x)
    \/ \E c \in Addresses, m \in MilestoneIds : rejectMilestone(c, m)
    \/ \E c \in Addresses, m \in MilestoneIds : endorseMilestone(c, m)
    \/ \E c \in Challengers, m \in MilestoneIds : challengeMilestone(c, m)
    \/ \E c \in Addresses, m \in MilestoneIds, x \in Multipliers, g \in Addresses :
          verifyWithSignature(c, m, x, g)
    \/ \E c \in Addresses, o \in OracleCandidates : addOracle(c, o)
    \/ \E c \in Addresses, o \in OracleCandidates : removeOracle(c, o)

Spec == Init /\ [][Next]_vars

----------------------------------------------------------------------------
(* Verification with a reward table the owner edits: every milestone type  *)
(* is submitted, the owner rewrites table entries, oracles and the owner   *)
(* verify.                                                                 *)

\* table entries the owner rewrites and the values written
EditedTypes == {"GitHubCommit"}
RewardChoices == {0, 75}
\* multipliers passed; 75 * 150 / 100 is not an integer
RewardMultipliers == {100, 150}

NextRewards ==
    \/ \E c \in Addresses, to \in Holders : CanMint /\ mint(c, to, "SolidityDev")
    \/ \E c \in Addresses, t \in TokenIds, ty \in MilestoneTypes :
          CanCreate /\ createMilestone(c, t, ty)
    \/ \E c \in Addresses, m \in MilestoneIds, x \in RewardMultipliers :
          verifyMilestone(c, m, x)
    \/ \E c \in Addresses, ty \in EditedTypes, xp \in RewardChoices :
          setBaseXPReward(c, ty, xp)
    \/ \E c \in Addresses, o \in OracleCandidates : addOracle(c, o)
    \/ \E c \in Addresses, o \in OracleCandidates : removeOracle(c, o)

SpecRewards == Init /\ [][NextRewards]_vars

----------------------------------------------------------------------------
(* The staking market: certificates are minted and levelled up through     *)
(* verified milestones while accounts deposit and withdraw stakes and send *)
(* wei to the market.                                                      *)

\* accounts that stake, and the amounts they deposit
Stakers == {"bob", "carol"}
StakeAmounts == {100, 150}
\* the account that sends wei to the market directly, and the amount sent
Donors == {"carol"}
Donations == {100}
\* stake indices passed to withdrawStake
StakeIndices == 0 .. (MaxStakes - 1)

\* the model stops depositing after MaxStakes deposits
CanStake == stakeDeposited < MaxStakes
\* the model lets a donor send only out of the wei it holds besides its finney
CanDonate(donor, value) == balance[donor] >= value

NextMarket ==
    \/ \E c \in Addresses, to \in Holders : CanMint /\ mint(c, to, "SolidityDev")
    \/ \E c \in Holders, t \in TokenIds :
          CanCreate /\ createMilestone(c, t, "GitHubCommit")
    \/ \E m \in MilestoneIds : verifyMilestone(Owner, m, 100)
    \/ \E c \in Stakers, t \in TokenIds, v \in StakeAmounts :
          CanStake /\ stakeOnSkill(c, t, v)
    \/ \E c \in Addresses, t \in TokenIds, i \in StakeIndices : withdrawStake(c, t, i)
    \/ \E c \in Donors, v \in Donations : CanDonate(c, v) /\ receive(c, v)

SpecMarket == Init /\ [][NextMarket]_vars

----------------------------------------------------------------------------
(* Reputation, seasons and governance: accounts tip each other and endorse *)
(* a certificate, the owner ends the season once it has run its 90 days,   *)
(* and accounts with enough reputation open proposals that are voted on.   *)

\* accounts that tip, the accounts tipped, and the amounts: 1 ether, which
\* earns the reputation a proposal needs, and 0.02 ether plus 59 wei, which
\* earns the reputation of two skill endorsements
Tippers == {"bob", "carol"}
TipRecipients == {"alice", "bob"}
TipValues == {[finney |-> 1000, wei |-> 0], [finney |-> 20, wei |-> 59]}
\* accounts that call endorseSkill, and the account that votes
Endorsers == {"alice", "bob"}
Voters == {"bob"}
\* voting periods in seconds: 30 days
Durations == {2592000}
\* steps of block.timestamp: 30 days, a third of a season; MaxTime is 120
\* days after deployment
TimeSteps == {2592000}

\* the model stops crediting reputation after MaxEarnings tips and skill
\* endorsements, opens at most MaxProposals proposals, ends at most
\* MaxSeasons - 1 seasons and stops the clock at MaxTime
CanEarn == reputationEarned < MaxEarnings
CanPropose == proposalIdCounter < MaxProposals
CanEndSeason == currentSeason < MaxSeasons
CanAdvance(seconds) == now + seconds <= MaxTime

NextGov ==
    \/ \E c \in Addresses, to \in Holders : CanMint /\ mint(c, to, "SolidityDev")
    \/ \E c \in Tippers, to \in TipRecipients, v \in TipValues :
          CanEarn /\ tipBuilder(c, to, v)
    \/ \E c \in Endorsers, t \in TokenIds : CanEarn /\ endorseSkill(c, t)
    \/ \E c \in Addresses, d \in Durations : CanPropose /\ createProposal(c, d)
    \/ \E c \in Voters, p \in ProposalIds, support \in BOOLEAN : vote(c, p, support)
    \/ \E c \in Addresses : CanEndSeason /\ endSeason(c)
    \/ \E dt \in TimeSteps : CanAdvance(dt) /\ advanceTime(dt)

SpecGov == Init /\ [][NextGov]_vars

----------------------------------------------------------------------------
(* The three contracts together: every state-changing function of the      *)
(* protocol with one choice of arguments each, the owner also naming an     *)
(* account as milestone verifier that grants XP directly.                   *)

\* the account the owner may name as milestone verifier besides the contract
DirectVerifiers == {"carol"}
\* the accounts that endorse and challenge milestones, one each, so that no
\* milestone reaches a threshold
MilestoneEndorsers == {"bob"}
MilestoneChallengers == {"carol"}
\* the account that stakes, endorses the certificate, proposes and votes
Actor == "bob"
\* the one step of block.timestamp: a season
SeasonSteps == {seasonDuration}

NextAll ==
    \/ \E to \in Holders : CanMint /\ mint(Owner, to, "SolidityDev")
    \/ \E v \in DirectVerifiers \cup {VerifierAddr} : setMilestoneVerifier(Owner, v)
    \/ \E c \in DirectVerifiers, t \in TokenIds : CanGrant(t) /\ addXP(c, t, 1000)
    \/ \E c \in Holders, t \in TokenIds :
          CanCreate /\ createMilestone(c, t, "GitHubCommit")
    \/ \E m \in MilestoneIds : verifyMilestone(Owner, m, 100)
    \/ \E m \in MilestoneIds : rejectMilestone(Owner, m)
    \/ \E c \in MilestoneEndorsers, m \in MilestoneIds : endorseMilestone(c, m)
    \/ \E c \in MilestoneChallengers, m \in MilestoneIds : challengeMilestone(c, m)
    \/ \E m \in MilestoneIds : verifyWithSignature(Actor, m, 100, Owner)
    \/ \E t \in TokenIds : CanEarn /\ endorseSkill(Actor, t)
    \/ \E t \in TokenIds : CanStake /\ stakeOnSkill(Actor, t, 100)
    \/ \E t \in TokenIds, i \in StakeIndices : withdrawStake(Actor, t, i)
    \/ CanEarn /\ tipBuilder("carol", Actor, [finney |-> 1000, wei |-> 0])
    \/ \E d \in Durations : CanPropose /\ createProposal(Actor, d)
    \/ \E p \in ProposalIds : vote(Actor, p, TRUE)
    \/ CanEndSeason /\ endSeason(Owner)
    \/ \E dt \in SeasonSteps : CanAdvance(dt) /\ advanceTime(dt)

SpecAll == Init /\ [][NextAll]_vars

----------------------------------------------------------------------------
(* Properties of the milestone lifecycle, checked under Spec *)

\* the id has been handed out by createMilestone
Created(m) == m < milestoneIdCounter

Minted(t) == tokenOwner[t] # ZeroAddr

RECURSIVE SumRequired(_, _)
\* total XP consumed by the level-ups from level `from` up to level `to`
SumRequired(from, to) ==
    IF from >= to THEN 0 ELSE xpToNextLevel(from) + SumRequired(from + 1, to)

\* the rarity tier that belongs to a level
TierOf(level) ==
    IF level >= 80 THEN Legendary
    ELSE IF level >= 60 THEN Epic
    ELSE IF level >= 40 THEN Rare
    ELSE IF level >= 20 THEN Uncommon
    ELSE Common

\* c is a third distinct endorser of the Pending milestone m
ThirdEndorser(c, m) ==
    /\ Created(m)
    /\ milestones[m].status = Pending
    /\ milestones[m].endorsements = 2
    /\ c \notin hasEndorsed[m]
    /\ c # milestones[m].builder

\* C1: when a Pending milestone has exactly 2 endorsements, endorseMilestone by
\* any third distinct identity other than the builder (oracle, owner or
\* neither) is accepted, sets the status to Verified with
\* xpAwarded = baseXPRewards(type), and grants XP to the certificate exactly
\* once (totalMilestones rises by exactly 1).
C1_ThirdEndorsementAutoVerifies ==
    /\ [](\A c \in Addresses, m \in MilestoneIds :
            ThirdEndorser(c, m) => ENABLED endorseMilestone(c, m))
    /\ [][\A c \in Addresses, m \in MilestoneIds :
            (ThirdEndorser(c, m) /\ endorseMilestone(c, m))
            => /\ milestones'[m].status = Verified
               /\ milestones'[m].xpAwarded = baseXPRewards[milestones[m].milestoneType]
               /\ skills'[milestones[m].skillNftId].totalMilestones
                    = skills[milestones[m].skillNftId].totalMilestones + 1]_vars

\* C2 as claimed: once a created milestone is Verified or Rejected, no step
\* changes its status.
C2_VerifiedAndRejectedTerminal ==
    [][\A m \in MilestoneIds :
         (Created(m) /\ milestones[m].status \in {Verified, Rejected})
         => milestones'[m].status = milestones[m].status]_vars

\* C2 amended: a created milestone that is Rejected stays Rejected; one that
\* is Verified stays Verified or becomes Challenged, and it becomes Challenged
\* only by a challengeMilestone call that brings its challenge count to the
\* threshold of 2 or beyond.
C2_RejectedTerminalVerifiedOnlyChallenged ==
    [][\A m \in MilestoneIds :
         Created(m) =>
           /\ milestones[m].status = Rejected => milestones'[m].status = Rejected
           /\ milestones[m].status = Verified =>
                 \/ milestones'[m].status = Verified
                 \/ /\ milestones'[m].status = Challenged
                    /\ milestones'[m].challenges >= CHALLENGE_THRESHOLD
                    /\ \E c \in Addresses : challengeMilestone(c, m)]_vars

\* a created milestone that was verified and then challenged into Challenged,
\* next to the fact that Rejected milestones are reachable at all
C2_Witness ==
    \E m \in MilestoneIds :
        /\ Created(m)
        /\ milestones[m].status = Challenged
        /\ milestones[m].verifier # ZeroAddr
        /\ milestones[m].challenges = CHALLENGE_THRESHOLD

\* C3: for a milestone whose status is Verified or Rejected, every
\* verifyMilestone, verifyWithSignature, rejectMilestone and endorseMilestone
\* call, by any caller with any multiplier and signer, is rejected (no
\* successor state: milestone, endorsement records and certificate stay as
\* they are, and a late endorsement grants no second XP).
C3_TerminalMilestoneRejectsCalls ==
    \A m \in MilestoneIds :
        milestones[m].status \in {Verified, Rejected} =>
            \A c \in Addresses :
                /\ ~ENABLED rejectMilestone(c, m)
                /\ ~ENABLED endorseMilestone(c, m)
                /\ \A x \in Multipliers \cup {0, 100} :
                      /\ ~ENABLED verifyMilestone(c, m, x)
                      /\ \A g \in Addresses : ~ENABLED verifyWithSignature(c, m, x, g)

\* a created milestone that was auto-verified by its third endorsement while an
\* account that has not endorsed it and is not its builder is still around
C3_Witness ==
    \E m \in MilestoneIds :
        /\ Created(m)
        /\ milestones[m].status = Verified
        /\ milestones[m].endorsements = ENDORSEMENT_THRESHOLD
        /\ \E c \in Addresses : c \notin hasEndorsed[m] /\ c # milestones[m].builder

\* C4: a milestone's xpAwarded is 0 while it has never been verified; for a
\* created milestone it is written only by the step from Pending to Verified
\* and never changes afterwards; an accepted challenge changes neither the
\* milestone's xpAwarded nor any certificate.
C4_XpAwardedSetOnce ==
    /\ [](\A m \in MilestoneIds :
            (milestones[m].status \in {Pending, Rejected}
               \/ milestones[m].verifier = ZeroAddr)
            => milestones[m].xpAwarded = 0)
    /\ [][\A m \in MilestoneIds :
            Created(m) =>
              /\ milestones'[m].xpAwarded # milestones[m].xpAwarded
                    => (milestones[m].status = Pending
                         /\ milestones'[m].status = Verified)
              /\ milestones[m].status # Pending
                    => milestones'[m].xpAwarded = milestones[m].xpAwarded]_vars
    /\ [][\A c \in Addresses, m \in MilestoneIds :
            challengeMilestone(c, m) =>
              /\ milestones'[m].xpAwarded = milestones[m].xpAwarded
              /\ skills' = skills]_vars

\* a created milestone that was verified with a positive award and afterwards
\* challenged up to the threshold, its award still recorded
C4_Witness ==
    \E m \in MilestoneIds :
        /\ Created(m)
        /\ milestones[m].status = Challenged
        /\ milestones[m].verifier # ZeroAddr
        /\ milestones[m].xpAwarded > 0
        /\ skills[milestones[m].skillNftId].totalMilestones >= 1

\* C11: verifyMilestone (with any multiplier) and rejectMilestone called by an
\* identity that is neither a currently registered oracle nor the contract
\* owner are rejected, also when the caller is the milestone's builder; the
\* call has no successor state, so the milestone stays Pending and the
\* certificate stays as it is.
C11_UnauthorizedVerifyRejectRejected ==
    \A c \in Addresses, m \in MilestoneIds :
        (c \notin isOracle /\ c # Owner) =>
            /\ ~ENABLED rejectMilestone(c, m)
            /\ \A x \in Multipliers \cup {0} : ~ENABLED verifyMilestone(c, m, x)

\* a created Pending milestone on a minted certificate whose builder is
\* neither oracle nor owner, while another account is a registered oracle
C11_Witness ==
    \E m \in MilestoneIds :
        /\ Created(m)
        /\ milestones[m].status = Pending
        /\ milestones[m].builder \in Addresses
        /\ milestones[m].builder \notin isOracle
        /\ milestones[m].builder # Owner
        /\ isOracle # {}

\* C14: createMilestone is accepted exactly for the current owner of a minted
\* certificate (not for a former owner, not for an id never minted); when
\* accepted it records, under the id that the counter held (an id no earlier
\* createMilestone returned), a milestone with builder = caller, the given
\* certificate id and type, status Pending, xpAwarded 0, no verifier,
\* 0 endorsements and 0 challenges, advances the counter by 1 and leaves every
\* other milestone as it was; when rejected there is no successor state, so
\* no milestone is created.
C14_CreateOnlyByCurrentOwner ==
    /\ [](\A c \in Addresses, t \in TokenIds, ty \in UsedTypes :
            ENABLED createMilestone(c, t, ty) <=> (Minted(t) /\ tokenOwner[t] = c))
    /\ [][\A c \in Addresses, t \in TokenIds, ty \in UsedTypes :
            createMilestone(c, t, ty) =>
              /\ ~Created(milestoneIdCounter)
              /\ milestoneIdCounter' = milestoneIdCounter + 1
              /\ milestones'[milestoneIdCounter] =
                    [builder |-> c, skillNftId |-> t, milestoneType |-> ty,
                     xpAwarded |-> 0, status |-> Pending, verifier |-> ZeroAddr,
                     endorsements |-> 0, challenges |-> 0]
              /\ \A m \in MilestoneIds \ {milestoneIdCounter} :
                    milestones'[m] = milestones[m]]_vars

\* a milestone created by the account a certificate was transferred to, while
\* the account it was minted to is no longer its owner
C14_Witness ==
    \E m \in MilestoneIds :
        /\ Created(m)
        /\ milestones[m].builder \in Recipients
        /\ milestones[m].builder \notin Holders
        /\ tokenOwner[milestones[m].skillNftId] = milestones[m].builder

\* C15: endorseMilestone is rejected (no successor state, so nothing changes)
\* when the caller is the milestone's builder, when the caller has already
\* endorsed that milestone, or when the milestone's status is not Pending.
C15_EndorseRejected ==
    \A c \in Addresses, m \in MilestoneIds :
        (\/ c = milestones[m].builder
         \/ c \in hasEndorsed[m]
         \/ milestones[m].status # Pending)
        => ~ENABLED endorseMilestone(c, m)

\* a created milestone, still Pending, that carries an endorsement of an
\* account other than its builder
C15_Witness ==
    \E m \in MilestoneIds :
        /\ Created(m)
        /\ milestones[m].status = Pending
        /\ milestones[m].endorsements >= 1
        /\ milestones[m].builder \in Addresses
        /\ \E c \in hasEndorsed[m] : c # milestones[m].builder

\* C16: challengeMilestone is accepted exactly when the caller has not
\* challenged that milestone before and its status is not Rejected; an
\* accepted challenge records the caller, raises the challenge count by
\* exactly 1, leaves the status as it was while the new count is below 2 and
\* sets it to Challenged when the new count reaches 2.
C16_ChallengeAcceptedAndCounted ==
    /\ [](\A c \in Addresses, m \in MilestoneIds :
            ENABLED challengeMilestone(c, m)
              <=> (c \notin hasChallenged[m] /\ milestones[m].status # Rejected))
    /\ [][\A c \in Addresses, m \in MilestoneIds :
            challengeMilestone(c, m) =>
              /\ milestones'[m].challenges = milestones[m].challenges + 1
              /\ hasChallenged'[m] = hasChallenged[m] \cup {c}
              /\ milestones'[m].challenges < CHALLENGE_THRESHOLD
                    => milestones'[m].status = milestones[m].status
              /\ milestones'[m].challenges = CHALLENGE_THRESHOLD
                    => milestones'[m].status = Challenged]_vars

\* a created milestone that two distinct accounts challenged while it was
\* Pending, and that is Challenged now
C16_Witness ==
    \E m \in MilestoneIds :
        /\ Created(m)
        /\ milestones[m].status = Challenged
        /\ milestones[m].verifier = ZeroAddr
        /\ milestones[m].challenges = CHALLENGE_THRESHOLD
        /\ Cardinality(hasChallenged[m]) = CHALLENGE_THRESHOLD

----------------------------------------------------------------------------
(* Properties of verification rewards, checked under SpecRewards *)

\* C12: a successful verifyMilestone(m, x) on a Pending milestone sets
\* xpAwarded to floor(base * x / 100), base being the table entry of the
\* milestone's type at the time of the call, sets the status to Verified,
\* records the caller as verifier, and grants exactly xpAwarded to the
\* milestone's certificate in exactly one addXP (totalMilestones rises by 1,
\* the XP left plus the XP consumed by level-ups equals the XP before plus
\* xpAwarded); no other certificate changes.
C12_VerifySetsAwardAndGrantsOnce ==
    [][\A c \in Addresses, m \in MilestoneIds, x \in RewardMultipliers :
         (milestones[m].status = Pending /\ verifyMilestone(c, m, x)) =>
           LET base == baseXPRewards[milestones[m].milestoneType]
               t == milestones[m].skillNftId
               awarded == milestones'[m].xpAwarded
           IN  /\ 100 * awarded <= base * x
               /\ base * x < 100 * (awarded + 1)
               /\ milestones'[m].status = Verified
               /\ milestones'[m].verifier = c
               /\ skills'[t].totalMilestones = skills[t].totalMilestones + 1
               /\ skills'[t].xp + SumRequired(skills[t].level, skills'[t].level)
                     = skills[t].xp + awarded
               /\ \A u \in TokenIds \ {t} : skills'[u] = skills[u]]_vars

\* a milestone verified after the owner rewrote its type's table entry, with
\* a multiplier for which base * x / 100 is not an integer (75 * 150 / 100)
C12_Witness ==
    \E m \in MilestoneIds :
        /\ Created(m)
        /\ milestones[m].status = Verified
        /\ baseXPRewards[milestones[m].milestoneType]
              # initializeBaseXP(milestones[m].milestoneType)
        /\ milestones[m].xpAwarded = 112
        /\ skills[milestones[m].skillNftId].totalMilestones = 1

\* certificate t is as mint left it
Fresh(t) ==
    /\ Minted(t)
    /\ skills[t].level = 1 /\ skills[t].xp = 0 /\ skills[t].totalMilestones = 0

\* C13 as claimed: whatever the milestone's type, when an oracle verifies
\* with multiplier 100 a created milestone of a freshly minted certificate,
\* the milestone ends Verified with xpAwarded > 0 and the certificate ends with
\* xp > 0 and totalMilestones = 1.
C13_OracleVerifyLeavesPositiveXp ==
    [][\A c \in Addresses, m \in MilestoneIds :
         (/\ Created(m)
          /\ c \in isOracle
          /\ Fresh(milestones[m].skillNftId)
          /\ verifyMilestone(c, m, 100))
         => LET t == milestones[m].skillNftId
            IN  /\ milestones'[m].status = Verified
                /\ milestones'[m].xpAwarded > 0
                /\ skills'[t].xp > 0
                /\ skills'[t].totalMilestones = 1]_vars

\* C13 amended: in that case the milestone ends Verified with xpAwarded equal
\* to the table entry of its type, the certificate ends with
\* totalMilestones = 1 and with xp plus the XP consumed by its level-ups equal
\* to xpAwarded; when the table entry is positive, xpAwarded is positive and
\* the certificate has gained xp or levels (xp > 0 or level > 1).
C13_OracleVerifyGrantsTableReward ==
    [][\A c \in Addresses, m \in MilestoneIds :
         (/\ Created(m)
          /\ c \in isOracle
          /\ Fresh(milestones[m].skillNftId)
          /\ verifyMilestone(c, m, 100))
         => LET t == milestones[m].skillNftId
                base == baseXPRewards[milestones[m].milestoneType]
            IN  /\ milestones'[m].status = Verified
                /\ milestones'[m].xpAwarded = base
                /\ skills'[t].totalMilestones = 1
                /\ skills'[t].xp + SumRequired(1, skills'[t].level) = base
                /\ base > 0 => (skills'[t].xp > 0 \/ skills'[t].level > 1)]_vars

\* a FeatureShipped milestone verified by an oracle with multiplier 100 as the
\* certificate's first: its 300 XP are consumed exactly by four level-ups
C13_Witness ==
    \E m \in MilestoneIds :
        /\ Created(m)
        /\ milestones[m].status = Verified
        /\ milestones[m].milestoneType = "FeatureShipped"
        /\ milestones[m].verifier = "carol"
        /\ milestones[m].xpAwarded = 300
        /\ skills[milestones[m].skillNftId].totalMilestones = 1
        /\ skills[milestones[m].skillNftId].xp = 0
        /\ skills[milestones[m].skillNftId].level = 5

----------------------------------------------------------------------------
(* Properties of the staking market, checked under SpecMarket *)

\* number of entries of the stake list `stakes` equal to entry e
CountOf(stakes, e) == Cardinality({k \in 1 .. Len(stakes) : stakes[k] = e})

\* the stake entries the model can hold
StakeEntries == [staker : Stakers, amount : StakeAmounts]

\* C17: an accepted withdrawStake of a stake of amount A on a certificate
\* whose level is L at the time of the call pays the caller exactly
\* A + floor(A * L / 100) out of the market's balance, and the certificate's
\* stake list afterwards is the list before with that one entry taken out.
\* (Every withdrawStake step shortens the list; testing that first spares
\* evaluating withdrawStake for the steps that cannot match.)
C17_WithdrawPaysPrincipalPlusLevelReward ==
    [][\A c \in Addresses, t \in TokenIds, i \in StakeIndices :
         (Len(nftStakes'[t]) # Len(nftStakes[t]) /\ withdrawStake(c, t, i)) =>
           LET A == nftStakes[t][i + 1].amount
               L == skills[t].level
               paid == balance'[c] - balance[c]
           IN  /\ paid >= A
               /\ 100 * (paid - A) <= A * L
               /\ A * L < 100 * (paid - A + 1)
               /\ balance'[MarketAddr] = balance[MarketAddr] - paid
               /\ \A a \in Addresses \ {c} : balance'[a] = balance[a]
               /\ Len(nftStakes'[t]) = Len(nftStakes[t]) - 1
               /\ \A e \in StakeEntries :
                     CountOf(nftStakes'[t], e) =
                       CountOf(nftStakes[t], e)
                         - (IF e = nftStakes[t][i + 1] THEN 1 ELSE 0)]_vars

\* the only deposit made so far, 150 wei by bob, has been withdrawn from a
\* certificate at level 3: bob holds his initial wei plus floor(150 * 3 / 100)
C17_Witness ==
    /\ stakeDeposited = 1
    /\ \A t \in TokenIds : nftStakes[t] = << >>
    /\ \E t \in TokenIds : skills[t].level = 3
    /\ balance["bob"] = InitialWei + 4

\* C18: right after an accepted withdrawStake(t, i) by caller c, a second
\* withdrawStake(t, i) by c is rejected (and so pays nothing), whatever other
\* stakes the certificate's list holds.
C18_SecondWithdrawSameIndexFails ==
    [][\A c \in Addresses, t \in TokenIds, i \in StakeIndices :
         (Len(nftStakes'[t]) # Len(nftStakes[t]) /\ withdrawStake(c, t, i))
         => ~(ENABLED withdrawStake(c, t, i))']_vars

\* C19: withdrawStake called by an identity other than the staker recorded in
\* the addressed entry is rejected (no successor state: nothing is paid, the
\* stake lists, totalStaked and nftTotalStaked stay as they are); hence every
\* accepted withdrawStake takes out an entry whose staker is the caller,
\* pays the caller and nobody else, lowers the caller's totalStaked by that
\* entry's amount and leaves every other identity's totalStaked untouched.
C19_OnlyStakerWithdraws ==
    /\ [](\A c \in Addresses, t \in TokenIds, i \in StakeIndices :
            (i < Len(nftStakes[t]) /\ nftStakes[t][i + 1].staker # c)
            => ~ENABLED withdrawStake(c, t, i))
    /\ [][\A c \in Addresses, t \in TokenIds, i \in StakeIndices :
            (Len(nftStakes'[t]) # Len(nftStakes[t]) /\ withdrawStake(c, t, i)) =>
              /\ nftStakes[t][i + 1].staker = c
              /\ totalStaked'[c] = totalStaked[c] - nftStakes[t][i + 1].amount
              /\ \A a \in Addresses \ {c} :
                    /\ totalStaked'[a] = totalStaked[a]
                    /\ balance'[a] = balance[a]]_vars

\* one certificate's list holds stakes of two different stakers and the
\* market holds enough wei to pay any of them out with its reward
C19_Witness ==
    \E t \in TokenIds :
        /\ Len(nftStakes[t]) >= 2
        /\ \E i, j \in 1 .. Len(nftStakes[t]) :
              nftStakes[t][i].staker # nftStakes[t][j].staker
        /\ \A i \in 1 .. Len(nftStakes[t]) :
              balance[MarketAddr] >=
                nftStakes[t][i].amount + stakeRewards(nftStakes[t][i].amount, t)

RECURSIVE SumAmounts(_)
\* sum of the amounts of the entries of a stake list
SumAmounts(stakes) ==
    IF stakes = << >> THEN 0
    ELSE Head(stakes).amount + SumAmounts(Tail(stakes))

\* the entries of a stake list deposited by s, in list order
StakesOf(stakes, s) == SelectSeq(stakes, LAMBDA e : e.staker = s)

RECURSIVE SumOver(_, _)
\* sum of the amounts of the entries deposited by s in the lists of the
\* certificates in the set `tokens`
SumOver(tokens, s) ==
    IF tokens = {} THEN 0
    ELSE LET t == CHOOSE u \in tokens : TRUE
         IN  SumAmounts(StakesOf(nftStakes[t], s)) + SumOver(tokens \ {t}, s)

\* C20: in every reachable state nftTotalStaked[t] is the sum of the amounts
\* of the entries in certificate t's stake list and totalStaked[s] is the sum
\* of the amounts of all entries deposited by s; every accepted stakeOnSkill
\* of v wei raises the caller's totalStaked and the certificate's
\* nftTotalStaked by exactly v.
C20_StakeTotalsMatchEntries ==
    /\ [](\A t \in TokenIds : nftTotalStaked[t] = SumAmounts(nftStakes[t]))
    /\ [](\A s \in Addresses : totalStaked[s] = SumOver(TokenIds, s))
    /\ [][\A c \in Addresses, t \in TokenIds, v \in StakeAmounts :
            (stakeDeposited' # stakeDeposited /\ stakeOnSkill(c, t, v)) =>
              /\ totalStaked'[c] = totalStaked[c] + v
              /\ nftTotalStaked'[t] = nftTotalStaked[t] + v]_vars

\* after two deposits and a withdrawal that paid bob a reward, carol's stake
\* of 150 wei is the one entry left
C20_Witness ==
    /\ stakeDeposited = 2
    /\ \E t \in TokenIds :
          nftStakes[t] = << [staker |-> "carol", amount |-> 150] >>
    /\ balance["bob"] > InitialWei

\* The market's stake book and balances as one value, and the value after a
\* call: a call that reverts leaves it as it was.
MarketState == [stakes |-> nftStakes, total |-> totalStaked,
                nftTotal |-> nftTotalStaked, wei |-> balance,
                finney |-> balanceFinney]

\* the market state after stakeOnSkill(skillNftId) with msg.value = value
stakeOnSkillResult(mk, sender, skillNftId, value) ==
    IF /\ value > 0
       /\ mk.finney[sender] > 0 \/ mk.wei[sender] >= value
    THEN [mk EXCEPT
            !.stakes[skillNftId] = Append(@, [staker |-> sender, amount |-> value]),
            !.total[sender] = @ + value,
            !.nftTotal[skillNftId] = @ + value,
            !.wei[sender] = @ - value,
            !.wei[MarketAddr] = @ + value]
    ELSE mk

\* the market state after withdrawStake(skillNftId, stakeIndex)
withdrawStakeResult(mk, sender, skillNftId, stakeIndex) ==
    LET stakes == mk.stakes[skillNftId]
        amount == stakes[stakeIndex + 1].amount
        rewards == stakeRewards(amount, skillNftId)
    IN  IF /\ stakeIndex < Len(stakes)
           /\ stakes[stakeIndex + 1].staker = sender
           /\ mk.total[sender] >= amount
           /\ mk.nftTotal[skillNftId] >= amount
           /\ mk.finney[MarketAddr] > 0 \/ mk.wei[MarketAddr] >= amount + rewards
        THEN [mk EXCEPT
                !.stakes[skillNftId] = removeStake(stakes, stakeIndex),
                !.total[sender] = @ - amount,
                !.nftTotal[skillNftId] = @ - amount,
                !.wei[MarketAddr] = @ - (amount + rewards),
                !.wei[sender] = @ + (amount + rewards)]
        ELSE mk

\* the calls by which `staker` deposits on certificate t or withdraws one of
\* the stakes it holds on t
OwnStakeCalls(staker, t) ==
    [kind : {"stake"}, arg : StakeAmounts]
    \cup { [kind |-> "withdraw", arg |-> i] : i \in
              { j \in StakeIndices : /\ j < Len(nftStakes[t])
                                     /\ nftStakes[t][j + 1].staker = staker } }

callResult(mk, staker, t, call) ==
    IF call.kind = "stake"
    THEN stakeOnSkillResult(mk, staker, t, call.arg)
    ELSE withdrawStakeResult(mk, staker, t, call.arg)

\* C21: for two distinct stakers and one certificate, a deposit or withdrawal
\* of its own stake by the one and by the other leave the same nftTotalStaked
\* for the certificate and the same totalStaked for both stakers whichever
\* call is executed first.
C21_StakeCallsCommute ==
    \A a \in Stakers, b \in Stakers, t \in TokenIds :
      \A ca \in OwnStakeCalls(a, t), cb \in OwnStakeCalls(b, t) :
        LET ab == callResult(callResult(MarketState, a, t, ca), b, t, cb)
            ba == callResult(callResult(MarketState, b, t, cb), a, t, ca)
        IN  a # b =>
              /\ ab.nftTotal[t] = ba.nftTotal[t]
              /\ ab.total[a] = ba.total[a]
              /\ ab.total[b] = ba.total[b]

----------------------------------------------------------------------------
(* Properties of reputation, seasons and governance, checked under SpecGov *)

\* C22: a vote adds the voter's reputation at the moment of the call to the
\* tally it supports and records it as the voter's voteWeight; a step that
\* changes reputation afterwards changes no proposal's votesFor,
\* votesAgainst or recorded voteWeight.
C22_VoteWeightIsSnapshot ==
    /\ [][\A c \in Voters, p \in ProposalIds, support \in BOOLEAN :
            (proposals' # proposals /\ vote(c, p, support)) =>
              LET weight == reputationScore[c]
              IN  /\ proposals'[p].voteWeight[c] = weight
                  /\ proposals'[p].votesFor =
                        proposals[p].votesFor + (IF support THEN weight ELSE 0)
                  /\ proposals'[p].votesAgainst =
                        proposals[p].votesAgainst + (IF support THEN 0 ELSE weight)]_vars
    /\ [][reputationScore' # reputationScore =>
            \A p \in ProposalIds :
              /\ proposals'[p].votesFor = proposals[p].votesFor
              /\ proposals'[p].votesAgainst = proposals[p].votesAgainst
              /\ proposals'[p].voteWeight = proposals[p].voteWeight]_vars

\* bob voted with reputation 20 and holds more reputation now, while the
\* proposal is still open
C22_Witness ==
    \E p \in ProposalIds :
        /\ proposals[p].hasVoted = {"bob"}
        /\ proposals[p].voteWeight["bob"] = 20
        /\ proposals[p].votesFor + proposals[p].votesAgainst = 20
        /\ reputationScore["bob"] > 20
        /\ now <= proposals[p].endTime

\* f = floor(g * 5 / 100) for natural numbers g and f
IsFivePercentFloor(f, g) == 100 * f <= 5 * g /\ 5 * g < 100 * (f + 1)

\* amounts offered to tipBuilder in the properties: those of TipValues and 0
NoValue == [finney |-> 0, wei |-> 0]

\* C24: a tip of G > 0 (G = finney * 10^15 + wei, finney a multiple of 20)
\* from a payer other than the recipient takes G from the payer, keeps
\* floor(G * 5 / 100) in the contract and sends the rest to the recipient,
\* and credits floor(G / 0.001 ether) = finney reputation to the recipient
\* and to the recipient's points of the current season; a tip of value 0 and
\* a tip to oneself are rejected.
C24_TipSplitsFeeAndCreditsReputation ==
    /\ [][\A c \in Tippers, to \in TipRecipients, v \in TipValues :
            (balanceFinney' # balanceFinney /\ tipBuilder(c, to, v)) =>
              LET feeFinney == balanceFinney'[MarketAddr] - balanceFinney[MarketAddr]
                  feeWei == balance'[MarketAddr] - balance[MarketAddr]
              IN  /\ feeFinney * 20 = v.finney
                  /\ IsFivePercentFloor(feeWei, v.wei)
                  /\ balanceFinney'[c] = balanceFinney[c] - v.finney
                  /\ balance'[c] = balance[c] - v.wei
                  /\ balanceFinney'[to] = balanceFinney[to] + (v.finney - feeFinney)
                  /\ balance'[to] = balance[to] + (v.wei - feeWei)
                  /\ reputationScore'[to] = reputationScore[to] + v.finney
                  /\ seasonPoints'[currentSeason][to] =
                        seasonPoints[currentSeason][to] + v.finney
                  /\ \A a \in Addresses \ {to} :
                        reputationScore'[a] = reputationScore[a]]_vars
    /\ [](\A c \in Addresses, to \in Addresses, v \in TipValues \cup {NoValue} :
            (v = NoValue \/ c = to) => ~ENABLED tipBuilder(c, to, v))

\* alice has been tipped 0.02 ether and 59 wei once: she holds 19 finney and
\* 57 wei and 20 reputation, the contract 1 finney and 2 wei
C24_Witness ==
    /\ balanceFinney["alice"] = 19 /\ balance["alice"] = 57
    /\ balanceFinney[MarketAddr] = 1 /\ balance[MarketAddr] = 2
    /\ reputationScore["alice"] = 20
    /\ seasonPoints[currentSeason]["alice"] = 20

\* C25: endorseSkill by the certificate's owner or by a caller holding less
\* than 10 reputation is rejected; an accepted call takes exactly 10 from the
\* caller's reputation and adds exactly 20 to the owner's reputation and to
\* the owner's points of the current season, changing nobody else's; no
\* reputation balance is ever negative.
C25_EndorseSkillMovesReputation ==
    /\ [](\A c \in Addresses, t \in TokenIds :
            (tokenOwner[t] = c \/ reputationScore[c] < 10)
            => ~ENABLED endorseSkill(c, t))
    /\ [][\A c \in Endorsers, t \in TokenIds :
            (reputationScore' # reputationScore /\ endorseSkill(c, t)) =>
              LET owner == tokenOwner[t]
              IN  /\ owner # c /\ Minted(t)
                  /\ reputationScore[c] >= 10
                  /\ reputationScore'[c] = reputationScore[c] - 10
                  /\ reputationScore'[owner] = reputationScore[owner] + 20
                  /\ seasonPoints'[currentSeason][owner] =
                        seasonPoints[currentSeason][owner] + 20
                  /\ \A a \in Addresses \ {c, owner} :
                        reputationScore'[a] = reputationScore[a]]_vars
    /\ [](\A a \in Addresses : reputationScore[a] >= 0)

\* bob, tipped 0.02 ether once, has endorsed alice's certificate twice, the
\* second time with exactly 10 reputation: he is left with none and alice
\* holds 40, all of it in the current season
C25_Witness ==
    /\ reputationScore["bob"] = 0
    /\ reputationScore["alice"] = 40
    /\ seasonPoints[currentSeason]["alice"] = 40
    /\ reputationEarned = 3
    /\ \E t \in TokenIds : tokenOwner[t] = "alice"

\* the id has been handed out by createProposal
ProposalCreated(p) == p < proposalIdCounter

\* C23: a vote cast when the current time is outside [startTime, endTime] of
\* the proposal, on a proposal id that was never created, or by an identity
\* that has already voted on the proposal is rejected (the call has no
\* successor state, so both tallies stay as they are); an accepted vote is
\* on a created proposal, inside its window, by an identity that had not
\* voted on it.
C23_VoteOnlyInWindowOnce ==
    /\ [](\A c \in Addresses, p \in ProposalIds, support \in BOOLEAN :
            (\/ ~ProposalCreated(p)
             \/ now < proposals[p].startTime
             \/ now > proposals[p].endTime
             \/ c \in proposals[p].hasVoted)
            => ~ENABLED vote(c, p, support))
    /\ [][\A c \in Addresses, p \in ProposalIds, support \in BOOLEAN :
            (proposals' # proposals /\ vote(c, p, support)) =>
              /\ ProposalCreated(p)
              /\ proposals[p].startTime <= now /\ now <= proposals[p].endTime
              /\ c \notin proposals[p].hasVoted
              /\ c \in proposals'[p].hasVoted]_vars

\* bob has voted on a proposal whose voting period is over, at the last
\* second of which a vote was still accepted
C23_Witness ==
    \E p \in ProposalIds :
        /\ ProposalCreated(p)
        /\ "bob" \in proposals[p].hasVoted
        /\ now > proposals[p].endTime
        /\ reputationScore["bob"] > 0

\* C26: endSeason is rejected while the current time is before
\* seasonStartTime + seasonDuration (the call has no successor state); an
\* accepted endSeason increases currentSeason by exactly 1, sets
\* seasonStartTime to the current time, and every identity's points in the
\* season that begins are 0.
C26_EndSeasonOnlyAfterDuration ==
    /\ [](\A c \in Addresses :
            now < seasonStartTime + seasonDuration => ~ENABLED endSeason(c))
    /\ [][\A c \in Addresses :
            (currentSeason' # currentSeason /\ endSeason(c)) =>
              /\ now >= seasonStartTime + seasonDuration
              /\ currentSeason' = currentSeason + 1
              /\ seasonStartTime' = now
              /\ \A a \in Addresses : seasonPoints'[currentSeason'][a] = 0]_vars

\* the first season, in which alice earned points, was ended 90 days or more
\* after deployment, and the second season started at that moment
C26_Witness ==
    /\ currentSeason = 2
    /\ seasonStartTime >= DeployTime + seasonDuration
    /\ seasonPoints[1]["alice"] > 0
    /\ seasonPoints[2]["alice"] = 0

\* the season points of an entry of a leaderboard; an address that never
\* earned anything, the zero address among them, has none
PointsOf(season, a) == IF a \in Addresses THEN seasonPoints[season][a] ELSE 0

\* `board` lists identities by descending points of `season`, has at most
\* LeaderboardSize entries, and leaves out an identity that earned points
\* only when it is full of identities with at least as many
IsTopList(board, season) ==
    /\ Len(board) <= LeaderboardSize
    /\ \A i, j \in 1..Len(board) :
          i < j => PointsOf(season, board[i]) >= PointsOf(season, board[j])
    /\ \A a \in Addresses :
          (seasonPoints[season][a] > 0 /\ \A i \in 1..Len(board) : board[i] # a)
          => /\ Len(board) = LeaderboardSize
             /\ \A i \in 1..Len(board) :
                   PointsOf(season, board[i]) >= seasonPoints[season][a]

\* C27: after an accepted endSeason the leaderboard stored under the ending
\* season's id lists the (up to 10) identities with the highest points of
\* that season by descending points.
C27_LeaderboardListsTopBuilders ==
    [][\A c \in Addresses :
         (currentSeason' # currentSeason /\ endSeason(c)) =>
           IsTopList(seasonLeaderboard'[currentSeason], currentSeason)]_vars

\* C28: no step changes the stored leaderboard or any identity's points of
\* a season that has ended, and a step that credits season points credits
\* those of the current season only.
C28_EndedSeasonsAreFrozen ==
    [][\A s \in SeasonIds :
         /\ s < currentSeason =>
               /\ seasonLeaderboard'[s] = seasonLeaderboard[s]
               /\ seasonPoints'[s] = seasonPoints[s]
         /\ s # currentSeason => seasonPoints'[s] = seasonPoints[s]]_vars

\* the first season has ended with points for alice and a stored
\* leaderboard, and alice has earned points in the second season since
C28_Witness ==
    /\ currentSeason = 2
    /\ Len(seasonLeaderboard[1]) = LeaderboardSize
    /\ seasonPoints[1]["alice"] > 0
    /\ seasonPoints[2]["alice"] > 0

----------------------------------------------------------------------------
(* Properties of the three contracts together, checked under SpecAll *)

\* the step verifies a milestone of certificate t: verifyMilestone or
\* verifyWithSignature moved it to Verified
VerificationStep(t) ==
    \E m \in MilestoneIds :
        /\ milestones[m].status # Verified
        /\ milestones'[m].status = Verified
        /\ milestones[m].skillNftId = t

\* the step is an XP grant to certificate t by the configured milestone
\* verifier: totalMilestones grows by one and level and rarity do not fall
GrantStep(t) ==
    /\ skills'[t].totalMilestones = skills[t].totalMilestones + 1
    /\ skills'[t].level >= skills[t].level
    /\ skills'[t].category = skills[t].category

\* the operations that are no XP grant, with the arguments of NextAll
OtherOperation ==
    \/ \E c \in Holders, t \in TokenIds : createMilestone(c, t, "GitHubCommit")
    \/ \E m \in MilestoneIds : rejectMilestone(Owner, m)
    \/ \E c \in MilestoneEndorsers, m \in MilestoneIds : endorseMilestone(c, m)
    \/ \E c \in MilestoneChallengers, m \in MilestoneIds : challengeMilestone(c, m)
    \/ \E t \in TokenIds : endorseSkill(Actor, t)
    \/ \E t \in TokenIds : stakeOnSkill(Actor, t, 100)
    \/ \E t \in TokenIds, i \in StakeIndices : withdrawStake(Actor, t, i)
    \/ tipBuilder("carol", Actor, [finney |-> 1000, wei |-> 0])
    \/ \E d \in Durations : createProposal(Actor, d)
    \/ \E p \in ProposalIds : vote(Actor, p, TRUE)
    \/ endSeason(Owner)
    \/ \E v \in DirectVerifiers \cup {VerifierAddr} : setMilestoneVerifier(Owner, v)

\* C29 as stated: the record of a minted certificate changes only in a step
\* that verifies one of its milestones.
C29_OnlyVerificationChangesCertificates ==
    [][\A t \in TokenIds :
         (Minted(t) /\ skills'[t] # skills[t]) => VerificationStep(t)]_vars

\* C29, amended: the record of a minted certificate changes only by an XP
\* grant, made either in a step that verifies one of its milestones or by a
\* direct addXP of the account configured as milestone verifier; creating,
\* rejecting, endorsing below the threshold and challenging a milestone and
\* every Reputation Market operation leave every certificate as it is.
C29_OnlyGrantsChangeCertificates ==
    /\ [][\A t \in TokenIds :
            (Minted(t) /\ skills'[t] # skills[t]) =>
              /\ GrantStep(t)
              /\ \/ VerificationStep(t)
                 \/ \E a \in {1000} : addXP(milestoneVerifier, t, a)]_vars
    /\ [][(skills' # skills /\ OtherOperation) => FALSE]_vars

\* a certificate that received a direct grant of the configured account and
\* a verification's grant, with a stake on it, reputation earned by
\* endorsing it, and a vote cast
C29_Witness ==
    \E t \in TokenIds :
        /\ Minted(t)
        /\ skills[t].totalMilestones = 2
        /\ \E m \in MilestoneIds : milestones[m].status = Verified
        /\ nftStakes[t] # << >>
        /\ reputationScore[tokenOwner[t]] > 0
        /\ \E p \in ProposalIds : proposals[p].hasVoted # {}
        /\ currentSeason = 2

----------------------------------------------------------------------------
(* Properties of the progression engine, checked under SpecXP *)

\* C5: after every successful addXP the certificate's xp is below
\* xpToNextLevel(level) unless level = 100, and the call performed every
\* level-up its XP pays for: the XP before the call plus the amount equals the
\* XP left plus the requirements of all levels passed in this one call.
\* (Every addXP step increments totalMilestones; testing that first spares
\* evaluating addXP for the steps and arguments that cannot match.)
C5_AddXPLevelsUpRepeatedly ==
    [][\A c \in Addresses, t \in TokenIds, a \in XPAmounts :
         (skills'[t].totalMilestones # skills[t].totalMilestones /\ addXP(c, t, a)) =>
           /\ skills'[t].level = 100
                \/ skills'[t].xp < xpToNextLevel(skills'[t].level)
           /\ skills'[t].level >= skills[t].level
           /\ skills'[t].xp + SumRequired(skills[t].level, skills'[t].level)
                = skills[t].xp + a]_vars

\* a certificate that climbed more than one level in its only XP grant
C5_Witness ==
    \E t \in TokenIds :
        Minted(t) /\ skills[t].totalMilestones = 1 /\ skills[t].level > 2
                  /\ skills[t].level < 100

\* C6: no step lowers any certificate's rarity in the order
\* Common < Uncommon < Rare < Epic < Legendary; a Legendary one stays Legendary.
C6_RarityNeverDecreases ==
    [][\A t \in TokenIds :
         /\ skills'[t].rarity >= skills[t].rarity
         /\ skills[t].rarity = Legendary => skills'[t].rarity = Legendary]_vars

\* a Legendary certificate at the level cap that received a further grant
C6_Witness ==
    \E t \in TokenIds :
        /\ Minted(t) /\ skills[t].rarity = Legendary
        /\ skills[t].level = 100 /\ skills[t].xp >= 3300000

\* C7: in every reachable state each certificate's rarity is the tier of its
\* level (>= 80 Legendary, >= 60 Epic, >= 40 Rare, >= 20 Uncommon, else Common).
C7_RarityIsTierOfLevel ==
    \A t \in TokenIds : Minted(t) => skills[t].rarity = TierOf(skills[t].level)

\* a certificate whose single XP grant took it from Common across several tiers
C7_Witness ==
    \E t \in TokenIds :
        Minted(t) /\ skills[t].totalMilestones = 1 /\ skills[t].rarity >= Rare

\* C8: a freshly minted certificate that receives one addXP of 5000 from the
\* configured verifier reaches at least level 20 and a rarity above Common.
C8_Grant5000ReachesUncommon ==
    [][\A c \in Addresses, t \in TokenIds :
         (/\ Minted(t)
          /\ skills[t].level = 1 /\ skills[t].xp = 0
          /\ skills[t].rarity = Common /\ skills[t].totalMilestones = 0
          /\ addXP(c, t, 5000))
         => (skills'[t].level >= 20 /\ skills'[t].rarity > Common)]_vars

\* C9: every certificate's level is within 1..100; addXP on a level-100
\* certificate by the configured verifier is accepted, adds the amount to xp,
\* increments totalMilestones and leaves level and rarity unchanged.
C9_LevelCappedAt100 ==
    /\ [](\A t \in TokenIds :
            Minted(t) => (skills[t].level >= 1 /\ skills[t].level <= MaxLevel))
    /\ [](\A t \in TokenIds, a \in XPAmounts :
            (Minted(t) /\ skills[t].level = MaxLevel /\ milestoneVerifier \in Addresses)
            => ENABLED addXP(milestoneVerifier, t, a))
    /\ [][\A c \in Addresses, t \in TokenIds, a \in XPAmounts :
            (skills[t].level = MaxLevel /\ addXP(c, t, a))
            => /\ skills'[t].xp = skills[t].xp + a
               /\ skills'[t].totalMilestones = skills[t].totalMilestones + 1
               /\ skills'[t].level = skills[t].level
               /\ skills'[t].rarity = skills[t].rarity]_vars

\* a certificate at level 100 that has received XP after reaching the cap
C9_Witness ==
    \E t \in TokenIds :
        /\ Minted(t) /\ skills[t].level = MaxLevel
        /\ skills[t].totalMilestones >= 2
        /\ skills[t].xp >= xpToNextLevel(MaxLevel)

\* C10: addXP from any identity other than the configured milestone verifier,
\* or on a certificate id that was never minted, is rejected (the call has no
\* successor state, so no certificate changes).
C10_AddXPRejected ==
    \A c \in Addresses \cup {VerifierAddr}, t \in TokenIds, a \in XPAmounts :
        (c # milestoneVerifier \/ ~Minted(t)) => ~ENABLED addXP(c, t, a)

\* a verifier account is configured and has granted XP to a certificate, while
\* the other accounts are not the verifier
C10_Witness ==
    /\ milestoneVerifier \in Addresses
    /\ \E t \in TokenIds : Minted(t) /\ skills[t].totalMilestones >= 1

----------------------------------------------------------------------------
(* Milestone ids that were never created, checked under Spec *)

\* C31: endorseMilestone, challengeMilestone, verifyMilestone,
\* verifyWithSignature and rejectMilestone on a milestone id that was never
\* created are rejected: none of these calls has a successor state.
C31_UncreatedMilestoneCallsRejected ==
    \A c \in Addresses, m \in MilestoneIds :
        ~Created(m) =>
          /\ ~ENABLED endorseMilestone(c, m)
          /\ ~ENABLED challengeMilestone(c, m)
          /\ ~ENABLED rejectMilestone(c, m)
          /\ \A x \in Multipliers :
                /\ ~ENABLED verifyMilestone(c, m, x)
                /\ \A g \in Addresses : ~ENABLED verifyWithSignature(c, m, x, g)

\* C32: in every reachable state each milestone's endorsement counter equals
\* the number of identities recorded as having endorsed it and its challenge
\* counter the number recorded as having challenged it, and every accepted
\* endorsement or challenge adds exactly 1 to its counter.
C32_CountersMatchRecords ==
    /\ [](\A m \in MilestoneIds :
            /\ milestones[m].endorsements = Cardinality(hasEndorsed[m])
            /\ milestones[m].challenges = Cardinality(hasChallenged[m]))
    /\ [][\A c \in Addresses, m \in MilestoneIds :
            /\ (hasEndorsed' # hasEndorsed /\ endorseMilestone(c, m)) =>
                  milestones'[m].endorsements = milestones[m].endorsements + 1
            /\ (hasChallenged' # hasChallenged /\ challengeMilestone(c, m)) =>
                  milestones'[m].challenges = milestones[m].challenges + 1]_vars

----------------------------------------------------------------------------
(* Stake handles and solvency of the market, checked under SpecMarket *)

\* C33: an accepted withdrawStake(t, i) leaves every other stake of
\* certificate t at the index it had.
C33_StakeIndexIsStable ==
    [][\A c \in Stakers, t \in TokenIds, i \in StakeIndices :
         (Len(nftStakes'[t]) # Len(nftStakes[t]) /\ withdrawStake(c, t, i)) =>
           \A j \in 0 .. (Len(nftStakes[t]) - 1) :
              j # i => /\ j < Len(nftStakes'[t])
                       /\ nftStakes'[t][j + 1] = nftStakes[t][j + 1]]_vars

----------------------------------------------------------------------------
(* Signed and direct verification side by side: milestones of two types are *)
(* created, verified directly or through a signature that any account       *)
(* submits, rejected and challenged, while the owner registers and removes  *)
(* an oracle.                                                               *)

\* milestone types submitted: 50 and 150 base XP
SignedTypes == {"GitHubCommit", "CommunityContribution"}
\* accounts that submit signatures: one without any role, and the owner
Submitters == {"dave", "owner"}
\* accounts whose signature is submitted: the owner, the oracle candidate and
\* an account without any role
Signers == {"owner", "carol", "bob"}

NextSigned ==
    \/ \E c \in Addresses, to \in Holders : CanMint /\ mint(c, to, "SolidityDev")
    \/ \E c \in Holders, t \in TokenIds, ty \in SignedTypes :
          CanCreate /\ createMilestone(c, t, ty)
    \/ \E c \in Signers, m \in MilestoneIds, x \in Multipliers : verifyMilestone(c, m, x)
    \/ \E c \in Submitters, m \in MilestoneIds, x \in Multipliers, g \in Signers :
          verifyWithSignature(c, m, x, g)
    \/ \E c \in Signers, m \in MilestoneIds : rejectMilestone(c, m)
    \/ \E c \in Challengers, m \in MilestoneIds : challengeMilestone(c, m)
    \/ \E o \in OracleCandidates : addOracle(Owner, o)
    \/ \E o \in OracleCandidates : removeOracle(Owner, o)

SpecSigned == Init /\ [][NextSigned]_vars

----------------------------------------------------------------------------
(* Signed verification, checked under SpecSigned *)

\* C34: for a created milestone, with the MilestoneVerifier contract
\* configured as the certificates' milestone verifier, a signed verification
\* submitted by any account is accepted exactly when the milestone is Pending
\* and the signer is an oracle or the owner at that moment; in every state it
\* is accepted exactly when verifyMilestone called by the signer is, and an
\* accepted one leads to the state that verifyMilestone called by the signer
\* with the same multiplier leads to, and vice versa.
C34_SignatureEqualsDirectVerification ==
    /\ [](\A c \in Submitters, m \in MilestoneIds, x \in Multipliers, g \in Signers :
            /\ ENABLED verifyWithSignature(c, m, x, g) <=> ENABLED verifyMilestone(g, m, x)
            /\ (Created(m) /\ milestoneVerifier = VerifierAddr) =>
                 (ENABLED verifyWithSignature(c, m, x, g) <=>
                    (milestones[m].status = Pending /\ (g \in isOracle \/ g = Owner))))
    /\ [][\A m \in MilestoneIds, x \in Multipliers, g \in Signers :
            milestones'[m] # milestones[m] =>
              \A c \in Submitters :
                 verifyWithSignature(c, m, x, g) <=> verifyMilestone(g, m, x)]_vars

\* a milestone verified on behalf of the oracle carol, its award granted to
\* the certificate
C34_Witness ==
    \E m \in MilestoneIds :
        /\ Created(m)
        /\ milestones[m].status = Verified
        /\ milestones[m].verifier = "carol"
        /\ milestones[m].xpAwarded > 0
        /\ skills[milestones[m].skillNftId].totalMilestones = 1


----------------------------------------------------------------------------
(* Nested calls during the market's currency transfers, checked under SpecGov *)

\* tipBuilder(to) whose payee is a contract that calls vote(proposalId,
\* support) from its receive function: `payable(to).call{value: ...}("")`
\* forwards all gas and no function of the market carries a reentrancy
\* lock, so the nested vote runs after the transfer and before the tip's
\* reputation is credited, and is weighted with the payee's reputation
\* before the tip
tipBuilderReentered(sender, to, value, proposalId, support) ==
    LET fee == tipFee(value)
    IN  /\ value.finney > 0 \/ value.wei > 0
        /\ to # sender
        /\ covers(sender, value)
        /\ balanceFinney' = [balanceFinney EXCEPT
                                ![sender] = @ - value.finney,
                                ![to] = @ + (value.finney - fee.finney),
                                ![MarketAddr] = @ + fee.finney]
        /\ balance' = [balance EXCEPT
                                ![sender] = @ - value.wei,
                                ![to] = @ + (value.wei - fee.wei),
                                ![MarketAddr] = @ + fee.wei]
        /\ voteAllowed(to, proposalId)
        /\ proposals' = [proposals EXCEPT ![proposalId] = votedProposal(@, to, support)]
        /\ reputationScore' = [reputationScore EXCEPT ![to] = @ + tipReputation(value)]
        /\ seasonPoints' = [seasonPoints EXCEPT ![currentSeason][to] =
                                                  @ + tipReputation(value)]
        /\ reputationEarned' = reputationEarned + 1
        /\ UNCHANGED <<nftStakes, totalStaked, nftTotalStaked, stakeDeposited>>
        /\ UNCHANGED <<seasonLeaderboard, currentSeason, seasonStartTime>>
        /\ UNCHANGED <<nftVars, verVars, proposalIdCounter, now>>

\* C35: the value-transferring operations of the market are guarded against
\* reentrancy: a call into the market that the payee of a tip issues while
\* it receives the transfer cannot execute.
C35_NestedCallCannotExecute ==
    \A c \in Tippers, to \in TipRecipients, v \in TipValues,
       p \in ProposalIds, s \in BOOLEAN :
        ~ENABLED tipBuilderReentered(c, to, v, p, s)


----------------------------------------------------------------------------
(* The market's funds: the staking market together with the owner's        *)
(* withdrawal of the contract balance.                                     *)

NextFunds ==
    \/ \E c \in Addresses, to \in Holders : CanMint /\ mint(c, to, "SolidityDev")
    \/ \E c \in Holders, t \in TokenIds :
          CanCreate /\ createMilestone(c, t, "GitHubCommit")
    \/ \E m \in MilestoneIds : verifyMilestone(Owner, m, 100)
    \/ \E c \in Stakers, t \in TokenIds, v \in StakeAmounts :
          CanStake /\ stakeOnSkill(c, t, v)
    \/ \E c \in Stakers, t \in TokenIds, i \in StakeIndices : withdrawStake(c, t, i)
    \/ \E c \in Addresses : withdraw(c)

SpecFunds == Init /\ [][NextFunds]_vars

RECURSIVE SumStaked(_)
\* sum of the amounts of the stake entries of the certificates in `tokens`
SumStaked(tokens) ==
    IF tokens = {} THEN 0
    ELSE LET t == CHOOSE u \in tokens : TRUE
         IN  SumAmounts(nftStakes[t]) + SumStaked(tokens \ {t})

\* C36: in every reachable state the market's balance is at least the sum of
\* the amounts of all outstanding stake entries, so every staker can withdraw
\* at least the principal, whatever rewards were paid to other stakers and
\* whatever the owner withdrew.
C36_BalanceCoversStakes ==
    covers(MarketAddr, Wei(SumStaked(TokenIds)))


----------------------------------------------------------------------------
(* Milestones challenged before any verification, checked under Spec *)

\* milestone m was created and reached Challenged without having been verified
ChallengedWhilePending(m) ==
    /\ Created(m)
    /\ milestones[m].status = Challenged
    /\ milestones[m].verifier = ZeroAddr

\* C37: a created milestone that became Challenged while it was still Pending
\* stays Challenged for good: verifyMilestone, verifyWithSignature,
\* rejectMilestone and endorseMilestone on it are rejected for every caller,
\* signer and multiplier, and no step changes its status, its (zero)
\* xpAwarded, its verifier or its endorsements.
C37_ChallengedPendingIsFinal ==
    /\ [](\A m \in MilestoneIds :
            ChallengedWhilePending(m) =>
              /\ milestones[m].xpAwarded = 0
              /\ \A c \in Addresses :
                    /\ ~ENABLED rejectMilestone(c, m)
                    /\ ~ENABLED endorseMilestone(c, m)
                    /\ \A x \in Multipliers :
                          /\ ~ENABLED verifyMilestone(c, m, x)
                          /\ \A g \in Addresses : ~ENABLED verifyWithSignature(c, m, x, g))
    /\ [][\A m \in MilestoneIds :
            ChallengedWhilePending(m) =>
              /\ milestones'[m].status = Challenged
              /\ milestones'[m].xpAwarded = 0
              /\ milestones'[m].verifier = ZeroAddr
              /\ milestones'[m].endorsements = milestones[m].endorsements
              /\ hasEndorsed'[m] = hasEndorsed[m]]_vars

\* a created milestone with an endorsement that was challenged three times and
\* never verified, while the owner and an oracle could otherwise settle it
C37_Witness ==
    \E m \in MilestoneIds :
        /\ ChallengedWhilePending(m)
        /\ milestones[m].challenges = 3
        /\ milestones[m].endorsements >= 1
        /\ isOracle # {}


----------------------------------------------------------------------------
(* The XP ledger of a certificate, checked under SpecXP *)

\* the XP a skill record accounts for: its xp plus the requirements of the
\* levels 1 .. level - 1 it has passed
Credited(skill) == skill.xp + SumRequired(1, skill.level)

\* C38: for every certificate, xp plus the sum of the requirements of the
\* levels below its level equals the sum of the amounts of the accepted addXP
\* calls on it: the quantity is 0 when the certificate is minted, every
\* accepted addXP of amount a raises it by exactly a, and no other step
\* changes it.  (A step that leaves the record as it is leaves the quantity
\* as it is; testing that first spares summing the requirements.)
C38_LevelingConservesXP ==
    /\ [][\A t \in TokenIds :
            (tokenOwner'[t] # ZeroAddr /\ ~Minted(t)) => Credited(skills'[t]) = 0]_vars
    /\ [][\A c \in Addresses, t \in TokenIds, a \in XPAmounts :
            (skills'[t].totalMilestones # skills[t].totalMilestones /\ addXP(c, t, a)) =>
               Credited(skills'[t]) = Credited(skills[t]) + a]_vars
    /\ [][\A t \in TokenIds :
            (/\ Minted(t)
             /\ skills'[t] # skills[t]
             /\ skills'[t].totalMilestones = skills[t].totalMilestones) =>
               Credited(skills'[t]) = Credited(skills[t])]_vars

\* a certificate that received three grants, passed level 59 on the way and
\* holds XP left over within its level
C38_Witness ==
    \E t \in TokenIds :
        /\ Minted(t)
        /\ skills[t].totalMilestones = 3
        /\ skills[t].level > 59
        /\ skills[t].xp > 0


----------------------------------------------------------------------------
(* Verified milestones counted on the certificate, checked under Spec *)

\* the created milestones that reference certificate t and went from Pending
\* to Verified: those that are Verified, or Challenged with a verifier recorded
VerifiedMilestonesOf(t) ==
    { m \in MilestoneIds :
        /\ Created(m)
        /\ milestones[m].skillNftId = t
        /\ \/ milestones[m].status = Verified
           \/ /\ milestones[m].status = Challenged
              /\ milestones[m].verifier # ZeroAddr }

\* C39: in every reachable state each certificate's totalMilestones equals
\* the number of created milestones referencing it that went from Pending to
\* Verified.
C39_TotalMilestonesCountsVerified ==
    \A t \in TokenIds :
        skills[t].totalMilestones = Cardinality(VerifiedMilestonesOf(t))


----------------------------------------------------------------------------
(* Ballots: accounts earn reputation through tips, one of them opens a      *)
(* proposal, and three accounts of different reputation vote on it while    *)
(* the clock runs past the end of the voting period.                        *)

\* accounts that vote: two that receive tips and one without reputation
Ballots == {"alice", "bob", "carol"}

NextVotes ==
    \/ \E c \in Tippers, to \in TipRecipients, v \in TipValues :
          CanEarn /\ tipBuilder(c, to, v)
    \/ \E c \in Addresses, d \in Durations : CanPropose /\ createProposal(c, d)
    \/ \E c \in Ballots, p \in ProposalIds, support \in BOOLEAN : vote(c, p, support)
    \/ \E dt \in TimeSteps : CanAdvance(dt) /\ advanceTime(dt)

SpecVotes == Init /\ [][NextVotes]_vars

RECURSIVE SumWeights(_, _)
\* sum of the vote weights a proposal records for the identities in `voters`
SumWeights(proposal, voters) ==
    IF voters = {} THEN 0
    ELSE LET v == CHOOSE u \in voters : TRUE
         IN  proposal.voteWeight[v] + SumWeights(proposal, voters \ {v})

\* C40: for every proposal, in every reachable state, votesFor + votesAgainst
\* equals the sum of the recorded voteWeight of all identities marked as
\* having voted on it, and no step decreases votesFor or votesAgainst.
C40_TalliesMatchRecordedWeights ==
    /\ [](\A p \in ProposalIds :
            proposals[p].votesFor + proposals[p].votesAgainst
               = SumWeights(proposals[p], proposals[p].hasVoted))
    /\ [][\A p \in ProposalIds :
            /\ proposals'[p].votesFor >= proposals[p].votesFor
            /\ proposals'[p].votesAgainst >= proposals[p].votesAgainst]_vars

\* a proposal on which two accounts of different reputation voted for and a
\* third, without reputation, voted too, after which a voter's reputation grew
C40_Witness ==
    \E p \in ProposalIds :
        /\ proposals[p].hasVoted = Ballots
        /\ proposals[p].voteWeight["alice"] = 1000
        /\ proposals[p].voteWeight["bob"] = 20
        /\ proposals[p].votesFor = 1020
        /\ proposals[p].votesAgainst = 0
        /\ reputationScore["bob"] > 20

====
